---- MODULE Spec2Model ----
(***************************************************************************)
(* pylas: the streaming LAS/LAZ writer (pylas/laswriter.py) and the packed  *)
(* point record it writes (pylas/point/record.py).                          *)
(*                                                                          *)
(* The destination stream is a sequence of blocks, each of a byte size; the *)
(* stream position and every offset of the header are byte offsets.  A      *)
(* block that is partly overwritten leaves fragments ("frag") behind.       *)
(***************************************************************************)
EXTENDS Integers, Sequences, FiniteSets, TLC

\* ------------------------------------------------------------------ bounds
\* Calls made on one LasWriter (write, write_evlrs, close together).
MaxCalls == 3
\* Points handed to one LasWriter over all its write calls.
MaxPoints == 2
\* the calls made on one LasData
MaxLasCalls == 2
\* the longest column of values a dimension is set to
MaxLen == 2
\* the frames of one function that the interpreter lets pile up before it
\* raises RecursionError
MaxDepth == 3

\* ------------------------------------------------------- program constants
\* np.finfo("f8").max: larger than every scaled coordinate of the model.
F8Max == 1000000
\* header.set_point_count_to_max(): the largest point count the header can hold
\* (the largest integer of the model checker stands for it).
PointCountMax == 2147483647

\* ------------------------------------------------------------ small helpers
None == [kind |-> "None"]

max(a, b) == IF a >= b THEN a ELSE b
min(a, b) == IF a <= b THEN a ELSE b

SetMax(S) == CHOOSE x \in S : \A y \in S : y <= x
SetMin(S) == CHOOSE x \in S : \A y \in S : x <= y

\* points[name].max() and points[name].min() of a non-empty column
ColumnMax(col) == SetMax({col[i] : i \in 1..Len(col)})
ColumnMin(col) == SetMin({col[i] : i \in 1..Len(col)})

RECURSIVE SortedSeq(_)
SortedSeq(S) ==
    IF S = {} THEN <<>> ELSE <<SetMin(S)>> \o SortedSeq(S \ {SetMin(S)})

\* ------------------------------------------------------------ point formats
\* The point format ids of the model, their record sizes, and the lowest
\* file version (minor number of "1.x") each one is allowed in.
PointFormatIds == {0, 1, 6}

PointFormat(id) == [id |-> id]

PointSize(id) ==
    CASE id = 0 -> 20
      [] id = 1 -> 28
      [] id = 6 -> 30

Versions == {"1.2", "1.4"}

VersionMinor(v) == IF v = "1.4" THEN 4 ELSE 2

\* Python compares the version strings: "1.2" < "1.4"
VersionLess(a, b) == VersionMinor(a) < VersionMinor(b)

\* dims.raise_if_version_not_compatible_with_fmt: TRUE when it raises
VersionNotCompatibleWithFmt(id, version) ==
    id >= 6 /\ VersionLess(version, "1.4")

\* ------------------------------------------------------------------ header
HeaderSize(version) == IF VersionLess(version, "1.4") THEN 227 ELSE 375

\* len(header.number_of_points_by_return)
ReturnTableLen(version) == IF VersionLess(version, "1.4") THEN 5 ELSE 15

Zeros(n) == [i \in 1..n |-> 0]

\* header.partial_reset(): the statistics the writer recomputes
partial_reset(h) ==
    [h EXCEPT !.point_count = 0,
              !.maxs = <<0, 0, 0>>,
              !.mins = <<0, 0, 0>>,
              !.number_of_points_by_return = Zeros(ReturnTableLen(h.version))]

set_compressed(h, flag) == [h EXCEPT !.compressed = flag]

\* ---------------------------------------------------------- VLRs and EVLRs
VlrHeaderSize == 54
EvlrHeaderSize == 60

LasZipVlr == [user_id |-> "laszip encoded", record_id |-> 22204, payload |-> 52]

\* ------------------------------------------------------------------- stream
RECURSIVE SizeOf(_)
SizeOf(blocks) ==
    IF blocks = <<>> THEN 0 ELSE Head(blocks).size + SizeOf(Tail(blocks))

\* n bytes of block b, from its byte skip on
Frag(b, skip, n) ==
    IF b.kind = "frag"
    THEN [kind |-> "frag", size |-> n,
          data |-> [src |-> b.data.src, skip |-> b.data.skip + skip]]
    ELSE [kind |-> "frag", size |-> n, data |-> [src |-> b, skip |-> skip]]

\* the first n bytes of the stream content
RECURSIVE Take(_, _)
Take(blocks, n) ==
    IF n <= 0 \/ blocks = <<>> THEN <<>>
    ELSE IF Head(blocks).size <= n
         THEN <<Head(blocks)>> \o Take(Tail(blocks), n - Head(blocks).size)
         ELSE <<Frag(Head(blocks), 0, n)>>

\* the stream content from byte n on
RECURSIVE Drop(_, _)
Drop(blocks, n) ==
    IF blocks = <<>> THEN <<>>
    ELSE IF n <= 0 THEN blocks
    ELSE IF Head(blocks).size <= n
         THEN Drop(Tail(blocks), n - Head(blocks).size)
         ELSE <<Frag(Head(blocks), n, Head(blocks).size - n)>> \o Tail(blocks)

\* stream.write(blocks) at the current position
StreamWrite(stream, blocks) ==
    [stream EXCEPT
        !.bytes = Take(@, stream.pos) \o blocks
                    \o Drop(@, stream.pos + SizeOf(blocks)),
        !.pos = @ + SizeOf(blocks)]

HeaderBlock(h) == [kind |-> "header", size |-> HeaderSize(h.version), data |-> h]

VlrBlocks(vlrs) ==
    [i \in 1..Len(vlrs) |->
        [kind |-> "vlr", size |-> VlrHeaderSize + vlrs[i].payload, data |-> vlrs[i]]]

EvlrBlocks(evlrs) ==
    [i \in 1..Len(evlrs) |->
        [kind |-> "evlr", size |-> EvlrHeaderSize + evlrs[i].payload, data |-> evlrs[i]]]

\* points.memoryview(): one block per record of the point buffer
PointBlocks(points) ==
    [i \in 1..Len(points.array) |->
        [kind |-> "point", size |-> PointSize(points.point_format.id),
         data |-> points.array[i]]]

\* ------------------------------------------------------------ writer state
\* One record s holds what a call of the writer reads and assigns: the fields
\* of the LasWriter, the destination stream, the record of the calls made on
\* the point writer (encLog) and of the writes made on the destination
\* (wlog), and the exception the call ends with (err, "" for none).
Raise(s, e) == [s EXCEPT !.err = e]

EncCall(s, name) == [s EXCEPT !.encLog = Append(@, name)]

\* dest.write(blocks); a closed stream raises ValueError
DestWrite(s, blocks, what) ==
    IF blocks = <<>> THEN s
    ELSE IF s.dest.closed THEN Raise(s, "ValueError")
    ELSE [s EXCEPT !.dest = StreamWrite(@, blocks),
                   !.wlog = Append(@, [what |-> what, at |-> s.dest.pos])]

\* dest.seek(offset, io.SEEK_SET)
DestSeek(s, offset) ==
    IF s.dest.closed THEN Raise(s, "ValueError")
    ELSE [s EXCEPT !.dest.pos = offset]

\* HeaderFactory.read_from_stream(dest) with dest at offset 0
HeaderAtStart(bytes) ==
    IF bytes # <<>> /\ Head(bytes).kind = "header" THEN Head(bytes).data ELSE None

\* int.from_bytes(dest.read(8), 'little', signed=True) at a byte offset
ReadOffset(bytes, offset) ==
    LET r == Take(Drop(bytes, offset), 8)
    IN  IF Len(r) = 1 /\ r[1].kind = "offset" THEN r[1].data.value ELSE 0

OffsetBlock(value) == [kind |-> "offset", size |-> 8, data |-> [value |-> value]]

\* ------------------------------------------------------------- PointWriter
\* as PointWriter_write_initial_header_and_vlrs, with header.size alone as
\* the offset to the point data
PointWriter_write_initial_header_and_vlrs_NoVlrSize(s) ==
    LET h  == [s.header EXCEPT
                 !.number_of_vlr = Len(s.vlrs),
                 !.offset_to_point_data = HeaderSize(s.header.version)]
        s1 == DestWrite([s EXCEPT !.header = h], <<HeaderBlock(h)>>, "header")
    IN  IF s1.err # "" THEN s1 ELSE DestWrite(s1, VlrBlocks(s1.vlrs), "vlrs")

\* PointWriter.write_initial_header_and_vlrs with the destination dest
PointWriter_write_initial_header_and_vlrs(s) ==
    LET h  == [s.header EXCEPT
                 !.number_of_vlr = Len(s.vlrs),
                 !.offset_to_point_data =
                     HeaderSize(s.header.version) + SizeOf(VlrBlocks(s.vlrs))]
        s1 == DestWrite([s EXCEPT !.header = h], <<HeaderBlock(h)>>, "header")
    IN  IF s1.err # "" THEN s1 ELSE DestWrite(s1, VlrBlocks(s1.vlrs), "vlrs")

\* PointWriter.write_updated_header with the destination dest
PointWriter_write_updated_header(s) ==
    LET s1 == DestSeek(s, 0)
    IN  IF s1.err # "" THEN s1
        ELSE DestWrite(s1, <<HeaderBlock(s1.header)>>, "header")

\* ------------------------------------------------- UncompressedPointWriter
UncompressedPointWriter == [kind |-> "UncompressedPointWriter"]

\* as UncompressedPointWriter_write_points, each chunk written at
\* offset_to_point_data
UncompressedPointWriter_write_points_AtPointData(s, points) ==
    DestWrite(DestSeek(s, s.header.offset_to_point_data), PointBlocks(points),
              "points")

UncompressedPointWriter_write_points(s, points) ==
    DestWrite(s, PointBlocks(points), "points")

\* -------------------------------------------------------- LazrsPointWriter
LazrsPointWriter(parallel) ==
    [kind |-> "LazrsPointWriter", parallel |-> parallel, compressor |-> None]

\* lazrs.LasZipCompressor(dest, vlr): writes the place of the chunk table offset
LazrsCompressorNew(s) ==
    LET s1 == DestWrite(s, <<OffsetBlock(-1)>>, "offset")
    IN  IF s1.err # "" THEN s1
        ELSE [s1 EXCEPT !.point_writer.compressor =
                 [kind |-> "compressor", start |-> s.dest.pos, finished |-> FALSE]]

LazBlock(array) ==
    [kind |-> "laz", size |-> Len(array), data |-> [points |-> array]]

ChunkTableBlock == [kind |-> "chunk_table", size |-> 8, data |-> [table |-> TRUE]]

LazrsPointWriter_write_initial_header_and_vlrs(s) ==
    LET s1 == PointWriter_write_initial_header_and_vlrs(
                  [s EXCEPT !.vlrs = Append(@, LasZipVlr)])
    IN  IF s1.err # "" THEN s1 ELSE LazrsCompressorNew(s1)

\* compressor.compress_many(points_bytes)
LazrsPointWriter_write_points(s, points) ==
    DestWrite(s, <<LazBlock(points.array)>>, "points")

\* compressor.done(): the chunk table, and its offset into the reserved place
LazrsPointWriter_done(s) ==
    IF s.point_writer.compressor = None THEN s
    ELSE LET table == s.dest.pos
             s1 == DestWrite(s, <<ChunkTableBlock>>, "chunk_table")
             s2 == DestSeek(s1, s.point_writer.compressor.start)
             s3 == DestWrite(s2, <<OffsetBlock(table)>>, "offset")
         IN  IF s1.err # "" THEN s1
             ELSE [DestSeek(s3, s1.dest.pos) EXCEPT
                      !.point_writer.compressor.finished = TRUE]

\* ------------------------------------------------ LasZipProcessPointWriter
\* The child process reads a LAS stream on stdin; what it emits reaches the
\* destination before done() returns (process.wait(), conveyor.join()).
\* s.child tells what the child does: its exit code, whether it has exited
\* by the time the first chunk is handed to it (early), whether it puts the
\* chunk table offset in its place itself (patched), and whether a
\* ConveyorThread relays its output (the destination has no fileno).
\* exited is process.poll() is not None; events are the steps of done();
\* splice holds the destination before and after each run of
\* _rewrite_chunk_table_offset.
HealthyChild ==
    [returncode |-> 0, early |-> FALSE, patched |-> FALSE, conveyor |-> TRUE]

LasZipProcessPointWriter ==
    [kind |-> "LasZipProcessPointWriter", stdin |-> <<>>, stdin_closed |-> FALSE,
     exited |-> FALSE, events |-> <<>>, splice |-> <<>>]

Event(s, name) == [s EXCEPT !.point_writer.events = Append(@, name)]

StdinWrite(s, blocks) ==
    IF s.point_writer.stdin_closed THEN Raise(s, "ValueError")
    ELSE [s EXCEPT !.point_writer.stdin = @ \o blocks]

LasZipProcessPointWriter_write_initial_header_and_vlrs(s) ==
    LET h0 == set_compressed([s.header EXCEPT !.point_count = PointCountMax], FALSE)
        h1 == [h0 EXCEPT
                 !.number_of_vlr = Len(s.vlrs),
                 !.offset_to_point_data =
                     HeaderSize(h0.version) + SizeOf(VlrBlocks(s.vlrs))]
        s1 == StdinWrite([s EXCEPT !.header = h1],
                         <<HeaderBlock(h1)>> \o VlrBlocks(s.vlrs))
    IN  IF s1.err # "" THEN s1
        ELSE [s1 EXCEPT !.header = [set_compressed(@, TRUE) EXCEPT !.point_count = 0],
                        !.point_writer.exited = s.child.early]

\* process.returncode != 0
BadErrCode(s) == s.child.returncode # 0

\* raise_if_bad_err_code: the LazError tells the exit code
raise_if_bad_err_code(s) ==
    IF BadErrCode(s)
    THEN Raise(Event(s, "error code " \o ToString(s.child.returncode)), "LazError")
    ELSE s

LasZipProcessPointWriter_write_points(s, points) ==
    IF s.point_writer.exited
    THEN raise_if_bad_err_code(s)
    ELSE StdinWrite(s, PointBlocks(points))

\* What laszip -stdin -olaz -stdout emits for the LAS stream it was fed: the
\* header and VLRs with the LasZip VLR added, -1 in the place of the chunk
\* table offset, the compressed points, the chunk table, and the chunk table
\* offset in the last 8 bytes.
LasZipOutput(stdin, patched) ==
    LET h      == Head(stdin).data
        vlrs   == SelectSeq(stdin, LAMBDA b : b.kind = "vlr")
        pts    == SelectSeq(stdin, LAMBDA b : b.kind = "point")
        lazvlr == VlrBlocks(<<LasZipVlr>>)
        hOut   == [set_compressed(h, TRUE) EXCEPT
                     !.number_of_vlr = @ + 1,
                     !.offset_to_point_data = @ + SizeOf(lazvlr)]
        laz    == LazBlock([i \in 1..Len(pts) |-> pts[i].data])
        table  == hOut.offset_to_point_data + 8 + laz.size
    IN  IF patched
        THEN <<HeaderBlock(hOut)>> \o vlrs \o lazvlr
               \o <<OffsetBlock(table), laz, ChunkTableBlock>>
        ELSE <<HeaderBlock(hOut)>> \o vlrs \o lazvlr
               \o <<OffsetBlock(-1), laz, ChunkTableBlock, OffsetBlock(table)>>

\* what reaches the destination: a child that fails or exits early emits
\* nothing
ChildOutput(s) ==
    IF s.child.returncode # 0 \/ s.child.early THEN <<>>
    ELSE LasZipOutput(s.point_writer.stdin, s.child.patched)

\* as LasZipProcessPointWriter_rewrite_chunk_table_offset, without
\* dest.truncate()
LasZipProcessPointWriter_rewrite_chunk_table_offset_NoTruncate(s) ==
    LET position_backup == s.dest.pos
        hdr   == HeaderAtStart(s.dest.bytes)
        total == SizeOf(s.dest.bytes)
        slot  == hdr.offset_to_point_data
        s1    == DestSeek(s, slot)
        s2    == DestWrite(s1, <<OffsetBlock(ReadOffset(s.dest.bytes, total - 8))>>,
                           "offset")
    IN  IF s.dest.closed \/ hdr = None THEN Raise(s, "ValueError")
        ELSE IF ReadOffset(s.dest.bytes, slot) = -1
        THEN Event([s2 EXCEPT !.dest.pos = total - 8], "splice")
        ELSE DestSeek(s, position_backup)

LasZipProcessPointWriter_rewrite_chunk_table_offset(s) ==
    LET position_backup == s.dest.pos
        hdr   == HeaderAtStart(s.dest.bytes)
        total == SizeOf(s.dest.bytes)
        slot  == hdr.offset_to_point_data
        s1    == DestSeek(s, slot)
        s2    == DestWrite(s1, <<OffsetBlock(ReadOffset(s.dest.bytes, total - 8))>>,
                           "offset")
    IN  IF s.dest.closed \/ hdr = None THEN Raise(s, "ValueError")
        ELSE IF ReadOffset(s.dest.bytes, slot) = -1
        THEN Event([s2 EXCEPT !.dest.bytes = Take(@, total - 8),
                              !.dest.pos = total - 8],
                   "splice")
        ELSE DestSeek(s, position_backup)

\* as LasZipProcessPointWriter_done, with conveyor.join() after
\* _rewrite_chunk_table_offset
LasZipProcessPointWriter_done_JoinLast(s) ==
    IF s.point_writer.stdin_closed THEN Raise(s, "ValueError")
    ELSE LET s0 == Event(Event([s EXCEPT !.point_writer.stdin_closed = TRUE,
                                         !.point_writer.exited = TRUE],
                                   "close_stdin"),
                             "wait")
             s2 == DestWrite(s0, ChildOutput(s), "laz")
         IN  IF s2.err # "" THEN s2
             ELSE IF BadErrCode(s2) THEN raise_if_bad_err_code(s2)
             ELSE LET s3 == LasZipProcessPointWriter_rewrite_chunk_table_offset(s2)
                      s4 == IF s.child.conveyor THEN Event(s3, "join") ELSE s3
                  IN  IF s3.err # "" THEN s3
                      ELSE [s4 EXCEPT !.point_writer.splice =
                               Append(@, [before |-> s2.dest, after |-> s3.dest])]

LasZipProcessPointWriter_done(s) ==
    IF s.point_writer.stdin_closed THEN Raise(s, "ValueError")
    ELSE LET s0 == Event(Event([s EXCEPT !.point_writer.stdin_closed = TRUE,
                                         !.point_writer.exited = TRUE],
                                   "close_stdin"),
                             "wait")
             s1 == IF s.child.conveyor THEN Event(s0, "join") ELSE s0
             s2 == DestWrite(s1, ChildOutput(s), "laz")
         IN  IF s2.err # "" THEN s2
             ELSE IF BadErrCode(s2) THEN raise_if_bad_err_code(s2)
             ELSE LET s3 == LasZipProcessPointWriter_rewrite_chunk_table_offset(s2)
                  IN  IF s3.err # "" THEN s3
                      ELSE [s3 EXCEPT !.point_writer.splice =
                               Append(@, [before |-> s2.dest, after |-> s3.dest])]

LasZipProcessPointWriter_write_updated_header(s) ==
    LET hdr  == HeaderAtStart(s.dest.bytes)
        hdr1 == [hdr EXCEPT
                   !.point_count = s.header.point_count,
                   !.maxs = s.header.maxs,
                   !.mins = s.header.mins,
                   !.number_of_points_by_return = s.header.number_of_points_by_return]
        hdr2 == IF ~VersionLess(s.header.version, "1.4")
                THEN [hdr1 EXCEPT
                        !.number_of_evlr = s.header.number_of_evlr,
                        !.start_of_first_evlr = s.header.start_of_first_evlr]
                ELSE hdr1
    IN  IF s.dest.closed \/ hdr = None THEN Raise(s, "ValueError")
        ELSE DestWrite(DestSeek(s, 0), <<HeaderBlock(hdr2)>>, "header")

\* ------------------------------------------- calls on the point writer
write_initial_header_and_vlrs(s) ==
    LET s1 == EncCall(s, "write_initial_header_and_vlrs")
    IN  CASE s.point_writer.kind = "UncompressedPointWriter" ->
               PointWriter_write_initial_header_and_vlrs(s1)
          [] s.point_writer.kind = "LazrsPointWriter" ->
               LazrsPointWriter_write_initial_header_and_vlrs(s1)
          [] s.point_writer.kind = "LasZipProcessPointWriter" ->
               LasZipProcessPointWriter_write_initial_header_and_vlrs(s1)

write_points(s, points) ==
    LET s1 == EncCall(s, "write_points")
    IN  CASE s.point_writer.kind = "UncompressedPointWriter" ->
               UncompressedPointWriter_write_points(s1, points)
          [] s.point_writer.kind = "LazrsPointWriter" ->
               LazrsPointWriter_write_points(s1, points)
          [] s.point_writer.kind = "LasZipProcessPointWriter" ->
               LasZipProcessPointWriter_write_points(s1, points)

point_writer_done(s) ==
    LET s1 == EncCall(s, "done")
    IN  CASE s.point_writer.kind = "None" -> Raise(s, "AttributeError")
          [] s.point_writer.kind = "UncompressedPointWriter" -> s1
          [] s.point_writer.kind = "LazrsPointWriter" -> LazrsPointWriter_done(s1)
          [] s.point_writer.kind = "LasZipProcessPointWriter" ->
               LasZipProcessPointWriter_done(s1)

write_updated_header(s) ==
    LET s1 == EncCall(s, "write_updated_header")
    IN  CASE s.point_writer.kind = "LasZipProcessPointWriter" ->
               LasZipProcessPointWriter_write_updated_header(s1)
          [] OTHER -> PointWriter_write_updated_header(s1)

\* ---------------------------------------------------------------- LasWriter
\* python list index k of a list of n elements, as an index from 1
PyIndex(k, n) == IF k < 0 THEN n + k + 1 ELSE k + 1

Column(points, name) == [i \in 1..Len(points.array) |-> points.array[i][name]]

\* for i, count in zip(*np.unique(points.return_number, return_counts=True)):
\* uniq holds the unique values still to visit, in increasing order
RECURSIVE CountReturns(_, _, _)
CountReturns(table, uniq, return_number) ==
    IF uniq = <<>> THEN table
    ELSE LET i == Head(uniq)
             count == Cardinality({k \in 1..Len(return_number) : return_number[k] = i})
         IN  IF i >= Len(table) THEN table
             ELSE CountReturns(
                    [table EXCEPT ![PyIndex(i - 1, Len(table))] = @ + count],
                    Tail(uniq), return_number)

\* the header extremum of one axis: max(header.x_max, X.max() * x_scale + x_offset)
ScaledMax(h, points, name, axis) ==
    max(h.maxs[axis], ColumnMax(Column(points, name)) * h.scales[axis] + h.offsets[axis])

ScaledMin(h, points, name, axis) ==
    min(h.mins[axis], ColumnMin(Column(points, name)) * h.scales[axis] + h.offsets[axis])

\* as LasWriter_update_header, with point_count = len(points) for +=
LasWriter_update_header_Assign(h, points) ==
    LET rn == Column(points, "return_number")
    IN  [h EXCEPT
           !.maxs = <<ScaledMax(h, points, "X", 1), ScaledMax(h, points, "Y", 2),
                      ScaledMax(h, points, "Z", 3)>>,
           !.mins = <<ScaledMin(h, points, "X", 1), ScaledMin(h, points, "Y", 2),
                      ScaledMin(h, points, "Z", 3)>>,
           !.number_of_points_by_return =
               CountReturns(@, SortedSeq({rn[k] : k \in 1..Len(rn)}), rn),
           !.point_count = Len(points.array)]

LasWriter_update_header(h, points) ==
    LET rn == Column(points, "return_number")
    IN  [h EXCEPT
           !.maxs = <<ScaledMax(h, points, "X", 1), ScaledMax(h, points, "Y", 2),
                      ScaledMax(h, points, "Z", 3)>>,
           !.mins = <<ScaledMin(h, points, "X", 1), ScaledMin(h, points, "Y", 2),
                      ScaledMin(h, points, "Z", 3)>>,
           !.number_of_points_by_return =
               CountReturns(@, SortedSeq({rn[k] : k \in 1..Len(rn)}), rn),
           !.point_count = @ + Len(points.array)]

BuildBackend(backend) ==
    CASE backend = "Laszip" -> LasZipProcessPointWriter
      [] backend = "LazrsParallel" -> LazrsPointWriter(TRUE)
      [] backend = "Lazrs" -> LazrsPointWriter(FALSE)

\* the values of LazBackend the loop knows
KnownBackends == {"Laszip", "LazrsParallel", "Lazrs"}

\* what the constructor of a back-end raises when it cannot be built here
ConstructionError(backend) ==
    IF backend = "Laszip" THEN "laszip executable not found" ELSE "lazrs error"

\* the body of the try: which back-end was asked for, and the exception it
\* ended with ("" when the constructor returned)
Construct(backend, constructible) ==
    [backend |-> backend,
     error |-> IF backend \notin KnownBackends THEN "Unknown LazBacked"
               ELSE IF backend \in constructible THEN ""
               ELSE ConstructionError(backend)]

\* as TryBackends, giving up at the first back-end that fails
TryBackends_FailFast(laz_backends, constructible, log) ==
    LET c == Construct(Head(laz_backends), constructible)
    IN  IF c.error = ""
        THEN [point_writer |-> BuildBackend(Head(laz_backends)), err |-> "",
              log |-> Append(log, c)]
        ELSE [point_writer |-> None, err |-> "NoLazBackend: " \o c.error,
              log |-> Append(log, c)]

\* as TryBackends, reporting the error of the first back-end that failed
RECURSIVE TryBackends_FirstError(_, _, _)
TryBackends_FirstError(laz_backends, constructible, log) ==
    IF laz_backends = <<>>
    THEN [point_writer |-> None, err |-> "NoLazBackend: " \o log[1].error,
          log |-> log]
    ELSE LET c == Construct(Head(laz_backends), constructible)
         IN  IF c.error = ""
             THEN [point_writer |-> BuildBackend(Head(laz_backends)), err |-> "",
                   log |-> Append(log, c)]
             ELSE TryBackends_FirstError(Tail(laz_backends), constructible,
                                         Append(log, c))

\* the for loop of _create_laz_backend: an exception of the try is logged
\* (log holds every turn of the loop) and kept as last_error; the else branch
\* of the loop raises when the list is used up
RECURSIVE TryBackends(_, _, _)
TryBackends(laz_backends, constructible, log) ==
    IF laz_backends = <<>>
    THEN [point_writer |-> None, err |-> "NoLazBackend: " \o log[Len(log)].error,
          log |-> log]
    ELSE LET c == Construct(Head(laz_backends), constructible)
         IN  IF c.error = ""
             THEN [point_writer |-> BuildBackend(Head(laz_backends)), err |-> "",
                   log |-> Append(log, c)]
             ELSE TryBackends(Tail(laz_backends), constructible, Append(log, c))

\* as LasWriter_create_laz_backend, with an UncompressedPointWriter when no
\* back-end could be initialized
LasWriter_create_laz_backend_Fallback(laz_backends, constructible) ==
    LET b == TryBackends(laz_backends, constructible, <<>>)
    IN  IF laz_backends = <<>> \/ b.err # ""
        THEN [point_writer |-> UncompressedPointWriter, err |-> "",
              log |-> IF laz_backends = <<>> THEN <<>> ELSE b.log]
        ELSE b

LasWriter_create_laz_backend(laz_backends, constructible) ==
    IF laz_backends = <<>>
    THEN [point_writer |-> None, err |-> "NoLazBackendSelected", log |-> <<>>]
    ELSE TryBackends(laz_backends, constructible, <<>>)

\* as FirstWrite, without the call of write_initial_header_and_vlrs
FirstWrite_NoInitialHeader(s, points, c) ==
    IF VersionNotCompatibleWithFmt(points.point_format.id, s.header.version)
    THEN Raise(s, "IncompatibleVersion")
    ELSE LET h  == set_compressed(
                     [s.header EXCEPT
                        !.point_format_id = points.point_format.id,
                        !.point_size = PointSize(points.point_format.id)],
                     c.do_compress)
             s1 == [s EXCEPT !.point_format = points.point_format, !.header = h]
             b  == LasWriter_create_laz_backend(c.laz_backends, c.constructible)
             s2 == [s1 EXCEPT !.ctorLog = @ \o b.log]
         IN  IF c.do_compress
             THEN IF b.err # "" THEN Raise(s2, b.err)
                  ELSE [s2 EXCEPT !.point_writer = b.point_writer]
             ELSE [s1 EXCEPT !.point_writer = UncompressedPointWriter]

\* as FirstWrite, with the version looked at after the format was adopted
\* and the initial header written
FirstWrite_LateVersionCheck(s, points, c) ==
    LET h  == set_compressed(
                [s.header EXCEPT
                   !.point_format_id = points.point_format.id,
                   !.point_size = PointSize(points.point_format.id)],
                c.do_compress)
        s1 == [s EXCEPT !.point_format = points.point_format, !.header = h]
        b  == LasWriter_create_laz_backend(c.laz_backends, c.constructible)
        s2 == [s1 EXCEPT !.ctorLog = @ \o b.log]
        s3 == IF c.do_compress
              THEN IF b.err # "" THEN Raise(s2, b.err)
                   ELSE write_initial_header_and_vlrs(
                            [s2 EXCEPT !.point_writer = b.point_writer])
              ELSE write_initial_header_and_vlrs(
                       [s1 EXCEPT !.point_writer = UncompressedPointWriter])
    IN  IF s3.err = ""
           /\ VersionNotCompatibleWithFmt(points.point_format.id, s.header.version)
        THEN Raise(s3, "IncompatibleVersion")
        ELSE s3

\* the branch of write for header.point_count == 0
FirstWrite(s, points, c) ==
    IF VersionNotCompatibleWithFmt(points.point_format.id, s.header.version)
    THEN Raise(s, "IncompatibleVersion")
    ELSE LET h  == set_compressed(
                     [s.header EXCEPT
                        !.point_format_id = points.point_format.id,
                        !.point_size = PointSize(points.point_format.id)],
                     c.do_compress)
             s1 == [s EXCEPT !.point_format = points.point_format, !.header = h]
             b  == LasWriter_create_laz_backend(c.laz_backends, c.constructible)
             s2 == [s1 EXCEPT !.ctorLog = @ \o b.log]
         IN  IF c.do_compress
             THEN IF b.err # "" THEN Raise(s2, b.err)
                  ELSE write_initial_header_and_vlrs(
                           [s2 EXCEPT !.point_writer = b.point_writer])
             ELSE write_initial_header_and_vlrs(
                      [s1 EXCEPT !.point_writer = UncompressedPointWriter])

\* as LasWriter_write, without the comparison of the point formats
LasWriter_write_NoFormatCheck(s, points, c) ==
    IF Len(points.array) = 0 THEN s
    ELSE IF s.done THEN Raise(s, "WriteAfterDone")
    ELSE LET s1 == IF s.header.point_count = 0 THEN FirstWrite(s, points, c) ELSE s
         IN  IF s1.err # "" THEN s1
             ELSE write_points(
                      [s1 EXCEPT !.header = LasWriter_update_header(@, points)],
                      points)

LasWriter_write(s, points, c) ==
    IF Len(points.array) = 0 THEN s
    ELSE IF s.done THEN Raise(s, "WriteAfterDone")
    ELSE LET s1 == IF s.header.point_count = 0 THEN FirstWrite(s, points, c)
                   ELSE IF points.point_format # s.point_format
                        THEN Raise(s, "IncompatibleFormat")
                        ELSE s
         IN  IF s1.err # "" THEN s1
             ELSE write_points(
                      [s1 EXCEPT !.header = LasWriter_update_header(@, points)],
                      points)

\* as LasWriter_write_evlrs, with the version looked at only after the EVLRs
\* were written
LasWriter_write_evlrs_LateVersionCheck(s, evlrs) ==
    LET s0 == IF Len(evlrs) > 0
              THEN LET s1 == point_writer_done(s)
                       s2 == [s1 EXCEPT !.done = TRUE,
                                        !.header.number_of_evlr = Len(evlrs)]
                       s3 == [s2 EXCEPT !.header.start_of_first_evlr = s2.dest.pos]
                   IN  IF s1.err # "" THEN s1
                       ELSE IF s2.dest.closed THEN Raise(s2, "ValueError")
                       ELSE DestWrite(s3, EvlrBlocks(evlrs), "evlrs")
              ELSE s
    IN  IF s0.err = "" /\ VersionLess(s.header.version, "1.4")
        THEN Raise(s0, "EvlrNotSupported")
        ELSE s0

LasWriter_write_evlrs(s, evlrs) ==
    IF VersionLess(s.header.version, "1.4") THEN Raise(s, "EvlrNotSupported")
    ELSE IF Len(evlrs) > 0
    THEN LET s1 == point_writer_done(s)
             s2 == [s1 EXCEPT !.done = TRUE,
                              !.header.number_of_evlr = Len(evlrs)]
             s3 == [s2 EXCEPT !.header.start_of_first_evlr = s2.dest.pos]
         IN  IF s1.err # "" THEN s1
             ELSE IF s2.dest.closed THEN Raise(s2, "ValueError")
             ELSE DestWrite(s3, EvlrBlocks(evlrs), "evlrs")
    ELSE s

\* as LasWriter_close, without the test of self.done
LasWriter_close_AlwaysDone(s, c) ==
    LET s1 == IF s.point_writer # None THEN point_writer_done(s) ELSE s
        s2 == IF s.point_writer # None THEN write_updated_header(s1) ELSE s1
    IN  IF s1.err # "" THEN s1
        ELSE IF s2.err # "" THEN s2
        ELSE IF c.closefd THEN [s2 EXCEPT !.dest.closed = TRUE]
        ELSE s2

LasWriter_close(s, c) ==
    LET s1 == IF s.point_writer # None /\ ~s.done THEN point_writer_done(s) ELSE s
        s2 == IF s.point_writer # None THEN write_updated_header(s1) ELSE s1
    IN  IF s1.err # "" THEN s1
        ELSE IF s2.err # "" THEN s2
        ELSE IF c.closefd THEN [s2 EXCEPT !.dest.closed = TRUE]
        ELSE s2

\* LasWriter.__init__: the writer's copy of the header
LasWriter_init_header(h) ==
    [partial_reset(h) EXCEPT !.maxs = <<-F8Max, -F8Max, -F8Max>>,
                             !.mins = <<F8Max, F8Max, F8Max>>]

\* ------------------------------------------------------------------ reader
\* the records of a buffer read as records of itemsize bytes
RecordsOf(buffer, itemsize) ==
    IF \A i \in 1..Len(buffer) : buffer[i].kind = "point" /\ buffer[i].size = itemsize
    THEN [i \in 1..Len(buffer) |-> buffer[i].data]
    ELSE buffer

\* raise_not_enough_bytes_error: the message names the expected and the read
\* number of bytes
raise_not_enough_bytes_error(expected_bytes_len, point_data_buffer_len) ==
    "PylasError: expected " \o ToString(expected_bytes_len) \o " bytes, read "
       \o ToString(point_data_buffer_len) \o " bytes"

\* PackedPointRecord.from_stream: rest is what the stream holds from its
\* position on; stream.read gives the bytes asked for or those that are left,
\* and np.frombuffer raises ValueError for a buffer of less than count points
PackedPointRecord_from_stream(rest, point_format, count) ==
    LET itemsize == PointSize(point_format.id)
        expected_bytes_len == count * itemsize
        point_data_buffer == Take(rest, expected_bytes_len)
        len == SizeOf(point_data_buffer)
    IN  IF len >= expected_bytes_len
        THEN [err |-> "", array |-> RecordsOf(point_data_buffer, itemsize)]
        ELSE IF len % itemsize # 0
        THEN [err |-> raise_not_enough_bytes_error(expected_bytes_len, len),
              array |-> <<>>]
        ELSE [err |-> "", array |-> RecordsOf(point_data_buffer, itemsize)]

\* Reading a destination back: the header at offset 0 (a stream that does not
\* start with a header has no LASF signature), then the point records at
\* offset_to_point_data.
ReadBack(bytes) ==
    LET hdr == HeaderAtStart(bytes)
    IN  IF hdr = None THEN [err |-> "InvalidSignature", array |-> <<>>]
        ELSE IF hdr.compressed THEN [err |-> "Compressed", array |-> <<>>]
        ELSE PackedPointRecord_from_stream(
                 Drop(bytes, hdr.offset_to_point_data),
                 PointFormat(hdr.point_format_id), hdr.point_count)

\* ------------------------------------------------------ dimension registry
\* The sub-byte dimensions of a point format: the composed field each one is
\* packed in and its bits, low_bit inclusive and high_bit exclusive.
SubFieldTable(id) ==
    IF id < 6
    THEN { [name |-> "return_number",       composed |-> "bit_fields", lo |-> 0, hi |-> 3],
           [name |-> "number_of_returns",   composed |-> "bit_fields", lo |-> 3, hi |-> 6],
           [name |-> "scan_direction_flag", composed |-> "bit_fields", lo |-> 6, hi |-> 7],
           [name |-> "edge_of_flight_line", composed |-> "bit_fields", lo |-> 7, hi |-> 8],
           [name |-> "classification", composed |-> "raw_classification", lo |-> 0, hi |-> 5],
           [name |-> "synthetic",      composed |-> "raw_classification", lo |-> 5, hi |-> 6],
           [name |-> "key_point",      composed |-> "raw_classification", lo |-> 6, hi |-> 7],
           [name |-> "withheld",       composed |-> "raw_classification", lo |-> 7, hi |-> 8] }
    ELSE { [name |-> "return_number",     composed |-> "bit_fields", lo |-> 0, hi |-> 4],
           [name |-> "number_of_returns", composed |-> "bit_fields", lo |-> 4, hi |-> 8],
           [name |-> "synthetic",  composed |-> "classification_flags", lo |-> 0, hi |-> 1],
           [name |-> "key_point",  composed |-> "classification_flags", lo |-> 1, hi |-> 2],
           [name |-> "withheld",   composed |-> "classification_flags", lo |-> 2, hi |-> 3],
           [name |-> "overlap",    composed |-> "classification_flags", lo |-> 3, hi |-> 4],
           [name |-> "scanner_channel",
                                   composed |-> "classification_flags", lo |-> 4, hi |-> 6],
           [name |-> "scan_direction_flag",
                                   composed |-> "classification_flags", lo |-> 6, hi |-> 7],
           [name |-> "edge_of_flight_line",
                                   composed |-> "classification_flags", lo |-> 7, hi |-> 8] }

\* The fields of the point buffer of a format without extra dimensions, in
\* order, with their size in bytes.
BaseDtype(id) ==
    CASE id = 0 ->
           << [name |-> "X", size |-> 4], [name |-> "Y", size |-> 4],
              [name |-> "Z", size |-> 4], [name |-> "intensity", size |-> 2],
              [name |-> "bit_fields", size |-> 1],
              [name |-> "raw_classification", size |-> 1],
              [name |-> "scan_angle_rank", size |-> 1],
              [name |-> "user_data", size |-> 1],
              [name |-> "point_source_id", size |-> 2] >>
      [] id = 1 ->
           << [name |-> "X", size |-> 4], [name |-> "Y", size |-> 4],
              [name |-> "Z", size |-> 4], [name |-> "intensity", size |-> 2],
              [name |-> "bit_fields", size |-> 1],
              [name |-> "raw_classification", size |-> 1],
              [name |-> "scan_angle_rank", size |-> 1],
              [name |-> "user_data", size |-> 1],
              [name |-> "point_source_id", size |-> 2],
              [name |-> "gps_time", size |-> 8] >>
      [] id = 6 ->
           << [name |-> "X", size |-> 4], [name |-> "Y", size |-> 4],
              [name |-> "Z", size |-> 4], [name |-> "intensity", size |-> 2],
              [name |-> "bit_fields", size |-> 1],
              [name |-> "classification_flags", size |-> 1],
              [name |-> "classification", size |-> 1],
              [name |-> "user_data", size |-> 1],
              [name |-> "scan_angle", size |-> 2],
              [name |-> "point_source_id", size |-> 2],
              [name |-> "gps_time", size |-> 8] >>

\* dims.DIMENSIONS: the names of the standard LAS dimensions of all formats
DIMENSIONS ==
    UNION { {BaseDtype(id)[i].name : i \in 1..Len(BaseDtype(id))}
              \cup {sf.name : sf \in SubFieldTable(id)} : id \in PointFormatIds }
      \cup {"red", "green", "blue", "nir"}

\* extradims: the size in bytes of the types an extra dimension can have; a
\* type string that is not one of them is unknown
ExtraDimTypes == {"uint8", "int32"}

ExtraDimSize(type) == IF type = "uint8" THEN 1 ELSE 4

\* ------------------------------------------------------------ PointFormat
\* A point format with extra dimensions: extra_dims is a list of (name, type).
PointFormatWith(id, extra_dims) == [id |-> id, extra_dims |-> extra_dims]

\* PointFormat.dtype: the fixed fields, then the extra dimensions
PointFormat_descr(fmt) ==
    BaseDtype(fmt.id)
      \o [i \in 1..Len(fmt.extra_dims) |->
            [name |-> fmt.extra_dims[i].name,
             size |-> ExtraDimSize(fmt.extra_dims[i].type)]]

FieldNames(dtype) == {dtype[i].name : i \in 1..Len(dtype)}

\* np.dtype(descr) raises ValueError when a field name occurs more than once
DtypeRaises(descr) ==
    \E i, j \in 1..Len(descr) : i # j /\ descr[i].name = descr[j].name

\* dtype.itemsize: the stride of the buffer
ItemSize(dtype) == SizeOf(dtype)

\* PointFormat.sub_fields
PointFormat_sub_fields(fmt) == SubFieldTable(fmt.id)

SubFieldNames(fmt) == {sf.name : sf \in PointFormat_sub_fields(fmt)}

SubField(fmt, name) == CHOOSE sf \in PointFormat_sub_fields(fmt) : sf.name = name

\* PointFormat.dimension_names: the dimensions of the format in order, each
\* sub-byte dimension under its own name in the place of its composed field,
\* then the extra dimensions
RECURSIVE SubFieldsOf(_, _)
SubFieldsOf(table, composed) ==
    LET S == {sf \in table : sf.composed = composed}
    IN  IF S = {} THEN <<>>
        ELSE LET first == CHOOSE sf \in S : \A o \in S : sf.lo <= o.lo
             IN  <<first.name>> \o SubFieldsOf(table \ {first}, composed)

RECURSIVE DimensionNamesOf(_, _)
DimensionNamesOf(dtype, table) ==
    IF dtype = <<>> THEN <<>>
    ELSE (IF \E sf \in table : sf.composed = Head(dtype).name
          THEN SubFieldsOf(table, Head(dtype).name)
          ELSE <<Head(dtype).name>>)
         \o DimensionNamesOf(Tail(dtype), table)

PointFormat_dimension_names(fmt) ==
    DimensionNamesOf(BaseDtype(fmt.id), SubFieldTable(fmt.id))
      \o [i \in 1..Len(fmt.extra_dims) |-> fmt.extra_dims[i].name]

\* ----------------------------------------------------------------- packing
Pow2(n) == 2 ^ n

\* a & b and a | b of two unsigned bytes
RECURSIVE BitAnd(_, _)
BitAnd(a, b) ==
    IF a = 0 \/ b = 0 THEN 0
    ELSE (a % 2) * (b % 2) + 2 * BitAnd(a \div 2, b \div 2)

RECURSIVE BitOr(_, _)
BitOr(a, b) ==
    IF a = 0 THEN b
    ELSE IF b = 0 THEN a
    ELSE max(a % 2, b % 2) + 2 * BitOr(a \div 2, b \div 2)

\* the mask of the bits low_bit .. high_bit - 1
MaskOf(sf) == Pow2(sf.hi) - Pow2(sf.lo)

RECURSIVE least_significant_bit(_)
least_significant_bit(mask) ==
    IF mask % 2 = 1 THEN 0 ELSE 1 + least_significant_bit(mask \div 2)

\* packing.unpack: (source_array & mask) >> lsb
unpack(source_array, mask) ==
    [i \in 1..Len(source_array) |->
        BitAnd(source_array[i], mask) \div Pow2(least_significant_bit(mask))]

\* packing.pack(array, sub_field_array, mask, inplace=True): OverflowError
\* when a value does not fit the bits of the mask, else
\* (array & ~mask) | ((sub_field_array << lsb) & mask)
pack(array, sub_field_array, mask) ==
    LET lsb == least_significant_bit(mask)
        max_value == mask \div Pow2(lsb)
    IN  IF \E i \in 1..Len(sub_field_array) : sub_field_array[i] > max_value
        THEN [err |-> "OverflowError", array |-> array]
        ELSE [err |-> "",
              array |-> [i \in 1..Len(array) |->
                           BitOr(BitAnd(array[i], 255 - mask),
                                 BitAnd((sub_field_array[i] * Pow2(lsb)) % 256, mask))]]

\* -------------------------------------------------------------- PointRecord
\* A point record: its point format, and the numpy array (the fields of its
\* dtype and one row per point).
\* np.zeros(n, dtype)
np_zeros(n, dtype) ==
    [dtype |-> dtype,
     data |-> [i \in 1..n |-> [f \in FieldNames(dtype) |-> 0]]]

\* PackedPointRecord.zeros(point_format, point_count)
PackedPointRecord_zeros(point_format, point_count) ==
    [point_format |-> point_format,
     array |-> np_zeros(point_count, PointFormat_descr(point_format))]

\* array[name] of a numpy structured array: ValueError without such a field
ArrayColumn(array, name) ==
    IF name \in FieldNames(array.dtype)
    THEN [err |-> "", value |-> [i \in 1..Len(array.data) |-> array.data[i][name]]]
    ELSE [err |-> "ValueError: no field of name", value |-> <<>>]

\* array[name] = value, value of the length of the array
ArraySetColumn(array, name, value) ==
    [array EXCEPT !.data = [i \in 1..Len(@) |-> [@[i] EXCEPT ![name] = value[i]]]]

\* PointRecord._append_zeros_if_too_small: np.zeros of a negative size raises
PointRecord_append_zeros_if_too_small(rec, value) ==
    LET size_diff == Len(value) - Len(rec.array.data)
    IN  IF size_diff = 0 THEN [err |-> "", rec |-> rec]
        ELSE IF size_diff < 0
        THEN [err |-> "ValueError: negative dimensions are not allowed", rec |-> rec]
        ELSE [err |-> "",
              rec |-> [rec EXCEPT !.array.data =
                          @ \o np_zeros(size_diff, rec.array.dtype).data]]

\* PackedPointRecord.__getitem__
PackedPointRecord_getitem(rec, item) ==
    IF item \in SubFieldNames(rec.point_format)
    THEN LET sf == SubField(rec.point_format, item)
         IN  [err |-> "",
              value |-> unpack(ArrayColumn(rec.array, sf.composed).value, MaskOf(sf))]
    ELSE ArrayColumn(rec.array, item)

\* as PackedPointRecord_setitem, storing the values of a sub-field as the
\* composed field
PackedPointRecord_setitem_NoPack(rec, key, value) ==
    LET a  == PointRecord_append_zeros_if_too_small(rec, value)
        r1 == a.rec
    IN  IF a.err # "" THEN a
        ELSE IF key \in SubFieldNames(rec.point_format)
        THEN [err |-> "",
              rec |-> [r1 EXCEPT !.array =
                          ArraySetColumn(@, SubField(rec.point_format, key).composed,
                                         value)]]
        ELSE IF key \notin FieldNames(r1.array.dtype)
        THEN [err |-> "ValueError: no field of name", rec |-> r1]
        ELSE [err |-> "", rec |-> [r1 EXCEPT !.array = ArraySetColumn(@, key, value)]]

\* PackedPointRecord.__setitem__: the record may grow before the key is
\* looked at; a key that is no sub-field (KeyError) is a field of the array
PackedPointRecord_setitem(rec, key, value) ==
    LET a  == PointRecord_append_zeros_if_too_small(rec, value)
        r1 == a.rec
    IN  IF a.err # "" THEN a
        ELSE IF key \in SubFieldNames(rec.point_format)
        THEN LET sf == SubField(rec.point_format, key)
                 p  == pack(ArrayColumn(r1.array, sf.composed).value, value, MaskOf(sf))
             IN  IF p.err # "" THEN [err |-> p.err, rec |-> r1]
                 ELSE [err |-> "",
                       rec |-> [r1 EXCEPT !.array =
                                   ArraySetColumn(@, sf.composed, p.array)]]
        ELSE IF key \notin FieldNames(r1.array.dtype)
        THEN [err |-> "ValueError: no field of name", rec |-> r1]
        ELSE [err |-> "", rec |-> [r1 EXCEPT !.array = ArraySetColumn(@, key, value)]]

\* PackedPointRecord.all_dimensions_names
PackedPointRecord_all_dimensions_names(rec) ==
    FieldNames(rec.array.dtype) \cup SubFieldNames(rec.point_format)

\* PointRecord.copy_fields_from(old_array), old_array a numpy array: for each
\* name of names, self[name] = old_array[name], a ValueError being passed over
RECURSIVE PointRecord_copy_fields_from(_, _, _)
PointRecord_copy_fields_from(rec, names, old_array) ==
    IF names = <<>> THEN [err |-> "", rec |-> rec]
    ELSE LET col == ArrayColumn(old_array, Head(names))
             set == PackedPointRecord_setitem(rec, Head(names), col.value)
         IN  IF col.err # "" THEN PointRecord_copy_fields_from(rec, Tail(names), old_array)
             ELSE IF set.err = "OverflowError" THEN set
             ELSE PointRecord_copy_fields_from(set.rec, Tail(names), old_array)

\* PointRecord.add_extra_dims
PointRecord_add_extra_dims(rec, type_tuples) ==
    LET fmt == [rec.point_format EXCEPT !.extra_dims = @ \o type_tuples]
        r1  == [rec EXCEPT !.point_format = fmt]
        old_array == rec.array
        r2  == [r1 EXCEPT !.array =
                   np_zeros(Len(old_array.data), PointFormat_descr(fmt))]
    IN  IF DtypeRaises(PointFormat_descr(fmt))
        THEN [err |-> "ValueError: field occurs more than once", rec |-> r1]
        ELSE PointRecord_copy_fields_from(r2, PointFormat_dimension_names(fmt),
                                          old_array)

\* PointRecord.copy_fields_from(other_record), other_record a point record:
\* other_record[name] unpacks a sub-field
RECURSIVE PointRecord_copy_fields_from_record(_, _, _)
PointRecord_copy_fields_from_record(rec, names, other_record) ==
    IF names = <<>> THEN [err |-> "", rec |-> rec]
    ELSE LET col == PackedPointRecord_getitem(other_record, Head(names))
             set == PackedPointRecord_setitem(rec, Head(names), col.value)
         IN  IF col.err # ""
             THEN PointRecord_copy_fields_from_record(rec, Tail(names), other_record)
             ELSE IF set.err = "OverflowError" THEN set
             ELSE PointRecord_copy_fields_from_record(set.rec, Tail(names),
                                                      other_record)

\* PointRecord.from_point_record
PointRecord_from_point_record(other_point_record, new_point_format) ==
    LET array == np_zeros(Len(other_point_record.array.data),
                          PointFormat_descr(new_point_format))
        new_record == [point_format |-> new_point_format, array |-> array]
    IN  IF DtypeRaises(PointFormat_descr(new_point_format))
        THEN [err |-> "ValueError: field occurs more than once",
              rec |-> other_point_record]
        ELSE PointRecord_copy_fields_from_record(
                 new_record, PointFormat_dimension_names(new_point_format),
                 other_point_record)

\* PackedPointRecord.to_unpacked: a record with an array of its own for each
\* dimension, the sub-fields unpacked by copy_fields_from
PackedPointRecord_to_unpacked(rec) ==
    LET names == PointFormat_dimension_names(rec.point_format)
    IN  [point_format |-> rec.point_format,
         unpacked |-> [name \in {names[i] : i \in 1..Len(names)} |->
                          PackedPointRecord_getitem(rec, name).value]]

\* UnpackedPointRecord.from_stream: the frame at depth calls
\* UnpackedPointRecord.from_stream with the arguments it was given and would
\* unpack what that call returns; frames counts the frames entered and reads
\* the calls of stream.read
RECURSIVE UnpackedPointRecord_from_stream(_, _, _, _)
UnpackedPointRecord_from_stream(stream, point_format_id, count, depth) ==
    IF depth > MaxDepth
    THEN [err |-> "RecursionError", frames |-> MaxDepth, reads |-> 0, rec |-> None]
    ELSE LET r == UnpackedPointRecord_from_stream(stream, point_format_id, count,
                                                  depth + 1)
         IN  IF r.err # "" THEN r
             ELSE [r EXCEPT !.rec = PackedPointRecord_to_unpacked(@)]

\* lib.convert(las, point_format_id): a LasData of the record converted to
\* the format of that id with the extra dimensions of the source
convert(l, point_format_id) ==
    LET r == PointRecord_from_point_record(
                 l.points_data,
                 PointFormatWith(point_format_id,
                                 l.points_data.point_format.extra_dims))
    IN  IF r.err # "" THEN [err |-> r.err, las |-> l]
        ELSE [err |-> "",
              las |-> [l EXCEPT !.points_data = r.rec,
                                !.header.point_format_id = point_format_id,
                                !.header.point_size = ItemSize(r.rec.array.dtype)]]

\* ------------------------------------------------------------------ LasBase
\* A LasData: its header, its point record, its VLR list and its plain
\* attributes.
ExtraBytesVlr == [kind |-> "ExtraBytesVlr", extra_bytes_structs |-> <<>>]

\* name.replace(" ", "_") for the names of the model
ReplaceSpaces(name) ==
    CASE name = "Name With Spaces" -> "Name_With_Spaces"
      [] name = "Lorem ipsum dolor sit amet, consectetur adipiscing elit. Sed non risus"
           -> "Lorem_ipsum_dolor_sit_amet,_consectetur_adipiscing_elit._Sed_non_risus"
      [] OTHER -> name

\* the longest name and description an ExtraBytesStruct holds
ExtraBytesNameMax == 32

\* ExtraBytesStruct(data_type, name, description): ValueError for a name or
\* description of more than 32 bytes
ExtraBytesStruct(type, name, description) ==
    IF Len(name) > ExtraBytesNameMax
    THEN [err |-> "bytes too long (" \o ToString(Len(name))
                    \o ", maximum length " \o ToString(ExtraBytesNameMax) \o ")"]
    ELSE IF Len(description) > ExtraBytesNameMax
    THEN [err |-> "bytes too long (" \o ToString(Len(description))
                    \o ", maximum length " \o ToString(ExtraBytesNameMax) \o ")"]
    ELSE [err |-> "", data_type |-> type, name |-> name, description |-> description]

\* the places of the ExtraBytes VLRs in a VLR list: vlrs.get("ExtraBytesVlr")
ExtraBytesVlrsAt(vlrlist) ==
    {i \in 1..Len(vlrlist) : vlrlist[i].kind = "ExtraBytesVlr"}

\* the try / except IndexError / finally of add_extra_dim, for the
\* descriptor extra_byte
AddToExtraBytesVlr(l, extra_byte, name, type) ==
    LET vl == IF ExtraBytesVlrsAt(l.vlrs) = {}
              THEN Append(l.vlrs, ExtraBytesVlr) ELSE l.vlrs
        at == SetMin(ExtraBytesVlrsAt(vl))
        vl1 == [vl EXCEPT ![at].extra_bytes_structs = Append(@, extra_byte)]
        r  == PointRecord_add_extra_dims(l.points_data,
                                         <<[name |-> name, type |-> type]>>)
    IN  [err |-> r.err, las |-> [l EXCEPT !.vlrs = vl1, !.points_data = r.rec]]

\* as LasBase_add_extra_dim, with the descriptor built and checked in the
\* finally clause
LasBase_add_extra_dim_LateCheck(l, name, type, description) ==
    LET name1 == ReplaceSpaces(name)
        extra_byte == ExtraBytesStruct(type, name1, description)
        done1 == AddToExtraBytesVlr(l, [err |-> "", data_type |-> type,
                                        name |-> name1, description |-> description],
                                    name1, type)
    IN  IF type \notin ExtraDimTypes THEN [err |-> "UnknownExtraByteType", las |-> l]
        ELSE IF extra_byte.err # "" THEN [err |-> extra_byte.err, las |-> done1.las]
        ELSE done1

\* LasBase.add_extra_dim
LasBase_add_extra_dim(l, name, type, description) ==
    LET name1 == ReplaceSpaces(name)
        extra_byte == ExtraBytesStruct(type, name1, description)
    IN  IF type \notin ExtraDimTypes THEN [err |-> "UnknownExtraByteType", las |-> l]
        ELSE IF extra_byte.err # "" THEN [err |-> extra_byte.err, las |-> l]
        ELSE AddToExtraBytesVlr(l, extra_byte, name1, type)

\* LasBase.__setattr__
LasBase_setattr(l, key, value) ==
    IF key \in DIMENSIONS
         \/ key \in PackedPointRecord_all_dimensions_names(l.points_data)
    THEN LET r == PackedPointRecord_setitem(l.points_data, key, value)
         IN  [err |-> r.err, las |-> [l EXCEPT !.points_data = r.rec]]
    ELSE [err |-> "", las |-> [l EXCEPT !.attrs = @ \cup {key}]]

\* LasBase.__setitem__
LasBase_setitem(l, key, value) ==
    LET r == PackedPointRecord_setitem(l.points_data, key, value)
    IN  [err |-> r.err, las |-> [l EXCEPT !.points_data = r.rec]]

\* LasBase.__init__
LasBase_init(header, points) ==
    [header |-> header, points_data |-> points, vlrs |-> <<>>, attrs |-> {}]

\* ------------------------------------------------------ lasdata.LasData
\* The LasData of lasdata.py reads a whole file when it is built: a file is
\* its header, its VLRs and its point data (the rows of the points, which a
\* compressed file holds compressed).
CompressedBit == 128

\* compression.is_point_format_compressed: the high bit of the format id
is_point_format_compressed(point_format_id) == point_format_id >= CompressedBit

compressed_id_to_uncompressed(point_format_id) == point_format_id % CompressedBit

uncompressed_id_to_compressed(point_format_id) ==
    (point_format_id % CompressedBit) + CompressedBit

\* VLRList.extract_laszip_vlr: the LasZip VLR taken out of the list, None
\* without one
extract_laszip_vlr(vlrlist) ==
    LET at == {i \in 1..Len(vlrlist) : vlrlist[i] = LasZipVlr}
    IN  IF at = {} THEN [vlr |-> None, vlrs |-> vlrlist]
        ELSE [vlr |-> vlrlist[SetMin(at)],
              vlrs |-> SubSeq(vlrlist, 1, SetMin(at) - 1)
                         \o SubSeq(vlrlist, SetMin(at) + 1, Len(vlrlist))]

\* pointdimensions.bit_transform(array, low_bit, high_bit)
bit_transform(array, name) == unpack(array, MaskOf(SubField(PointFormatWith(0, <<>>), name)))

\* the column of a field of the point data
FieldOf(np_point_data, name) ==
    [i \in 1..Len(np_point_data) |-> np_point_data[i][name]]

\* pointdata.bitpack: the sub-fields of one composed field put at their bits
RECURSIVE bitpack(_, _, _)
bitpack(ld, names, n) ==
    IF names = <<>> THEN [i \in 1..n |-> 0]
    ELSE pack(bitpack(ld, Tail(names), n), ld[Head(names)],
              MaskOf(SubField(PointFormatWith(0, <<>>), Head(names)))).array

\* LasData.__init__, from the point data on: the fields of the object, the
\* sub-fields unpacked from the two composed fields
LasData_unpacked(header, vlrlist, np_point_data) ==
    [header |-> header, vlrs |-> vlrlist, np_point_data |-> np_point_data,
     return_number |->
        bit_transform(FieldOf(np_point_data, "bit_fields"), "return_number"),
     number_of_returns |->
        bit_transform(FieldOf(np_point_data, "bit_fields"), "number_of_returns"),
     scan_direction_flag |->
        bit_transform(FieldOf(np_point_data, "bit_fields"), "scan_direction_flag"),
     edge_of_flight_line |->
        bit_transform(FieldOf(np_point_data, "bit_fields"), "edge_of_flight_line"),
     classification |->
        bit_transform(FieldOf(np_point_data, "raw_classification"), "classification"),
     synthetic |->
        bit_transform(FieldOf(np_point_data, "raw_classification"), "synthetic"),
     key_point |->
        bit_transform(FieldOf(np_point_data, "raw_classification"), "key_point"),
     withheld |->
        bit_transform(FieldOf(np_point_data, "raw_classification"), "withheld")]

\* as LasData_init, the LasZip VLR looked for after the point data were read
LasData_init_LateCheck(file) ==
    LET compressed == is_point_format_compressed(file.header.point_data_format_id)
        laszip == extract_laszip_vlr(file.vlrs)
    IN  IF compressed /\ laszip.vlr = None
        THEN [err |-> "ValueError: Could not find Laszip VLR", las |-> None,
              reads |-> <<"header", "vlrs", "points">>]
        ELSE [err |-> "",
              reads |-> <<"header", "vlrs">>
                          \o (IF compressed THEN <<"decompress">> ELSE <<"points">>),
              las |-> LasData_unpacked(
                          IF compressed
                          THEN [file.header EXCEPT !.point_data_format_id =
                                   compressed_id_to_uncompressed(@)]
                          ELSE file.header,
                          IF compressed THEN laszip.vlrs ELSE file.vlrs,
                          file.points)]

\* LasData.__init__: what is read of the file is logged in reads
LasData_init(file) ==
    LET compressed == is_point_format_compressed(file.header.point_data_format_id)
        laszip == extract_laszip_vlr(file.vlrs)
    IN  IF compressed /\ laszip.vlr = None
        THEN [err |-> "ValueError: Could not find Laszip VLR", las |-> None,
              reads |-> <<"header", "vlrs">>]
        ELSE [err |-> "",
              reads |-> <<"header", "vlrs">>
                          \o (IF compressed THEN <<"decompress">> ELSE <<"points">>),
              las |-> LasData_unpacked(
                          IF compressed
                          THEN [file.header EXCEPT !.point_data_format_id =
                                   compressed_id_to_uncompressed(@)]
                          ELSE file.header,
                          IF compressed THEN laszip.vlrs ELSE file.vlrs,
                          file.points)]

\* LasData.repack_bit_fields
LasData_repack_bit_fields(ld) ==
    [ld EXCEPT !.np_point_data =
        [i \in 1..Len(@) |->
            [@[i] EXCEPT !.bit_fields =
                bitpack(ld, <<"return_number", "number_of_returns",
                              "scan_direction_flag", "edge_of_flight_line">>,
                        Len(ld.np_point_data))[i]]]]

\* LasData.repack_classification
LasData_repack_classification(ld) ==
    [ld EXCEPT !.np_point_data =
        [i \in 1..Len(@) |->
            [@[i] EXCEPT !.raw_classification =
                bitpack(ld, <<"classification", "synthetic", "key_point", "withheld">>,
                        Len(ld.np_point_data))[i]]]]

\* the header size of the files that lasdata.py reads
LegacyHeaderSize == 227

\* VLRList.total_size_in_bytes
total_size_in_bytes(vlrlist) == SizeOf(VlrBlocks(vlrlist))

\* LasData.write_to: the call of repack_bit_fields is commented out
LasData_write_to(ld, do_compress) ==
    LET l1 == LasData_repack_classification(ld)
        l2 == [l1 EXCEPT !.vlrs = IF do_compress THEN Append(@, LasZipVlr) ELSE @]
        l3 == [l2 EXCEPT
                 !.header.offset_to_point_data =
                     l2.header.header_size + total_size_in_bytes(l2.vlrs),
                 !.header.point_data_format_id =
                     IF do_compress THEN uncompressed_id_to_compressed(@) ELSE @,
                 !.header.number_of_vlr = Len(l2.vlrs)]
    IN  [err |-> "", las |-> l3,
         out |-> [header |-> l3.header, vlrs |-> l3.vlrs,
                  compressed |-> do_compress, points |-> l3.np_point_data]]

\* ---------------------------------------------------------------- inputs
\* The records a chunk is made of: X, Y, Z and the return number.
Pool ==
    { [X |-> 0,  Y |-> 1,  Z |-> -152, return_number |-> 1],
      [X |-> 3,  Y |-> -1, Z |-> 0,    return_number |-> 5],
      [X |-> -2, Y |-> 0,  Z |-> 7,    return_number |-> 0] }

SeqsUpTo(S, n) == UNION {[1..k -> S] : k \in 0..n}

PointRecords(n) ==
    {[point_format |-> PointFormat(f), array |-> a] :
        f \in PointFormatIds, a \in SeqsUpTo(Pool, n)}

EvlrLists == {<<>>, <<[user_id |-> "pylas", record_id |-> 42, payload |-> 4]>>}

\* the VLR list handed to LasWriter
OneVlr == <<[user_id |-> "LASF_Projection", record_id |-> 2112, payload |-> 10]>>

VlrLists ==
    { <<>>, OneVlr,
      OneVlr \o <<[user_id |-> "pylas", record_id |-> 7, payload |-> 3]>> }

\* scale and offset of the three axes
Affines ==
    { [scales |-> <<1, 1, 1>>,  offsets |-> <<0, 0, 0>>],
      [scales |-> <<2, 1, 3>>,  offsets |-> <<10, 0, -5>>],
      [scales |-> <<-1, 2, 1>>, offsets |-> <<0, 10, -5>>] }

\* laz_backends, and the back-ends whose constructor succeeds here
BackendChoices ==
    { [laz_backends |-> <<"LazrsParallel", "Lazrs", "Laszip">>,
       constructible |-> {"Lazrs", "Laszip"}],
      [laz_backends |-> <<"Unknown", "Laszip">>, constructible |-> {"Laszip"}],
      [laz_backends |-> <<"Laszip", "Unknown">>, constructible |-> {}],
      [laz_backends |-> <<>>, constructible |-> {}] }

\* what the laszip child may do besides running to its end with the offset
\* left for the writer to put in place
Children ==
    { [returncode |-> 0, early |-> FALSE, patched |-> TRUE,  conveyor |-> FALSE],
      [returncode |-> 1, early |-> FALSE, patched |-> FALSE, conveyor |-> TRUE],
      [returncode |-> 1, early |-> TRUE,  patched |-> FALSE, conveyor |-> FALSE],
      [returncode |-> 0, early |-> TRUE,  patched |-> FALSE, conveyor |-> TRUE] }

\* the header handed to LasWriter: its statistics are those of an earlier file
GivenHeader(version, affine) ==
    [version |-> version, point_format_id |-> 0, point_size |-> PointSize(0),
     compressed |-> FALSE, point_count |-> 7,
     maxs |-> <<9, 9, 9>>, mins |-> <<-9, -9, -9>>,
     number_of_points_by_return |-> [i \in 1..ReturnTableLen(version) |-> 1],
     scales |-> affine.scales, offsets |-> affine.offsets,
     number_of_vlr |-> 0, offset_to_point_data |-> 0,
     number_of_evlr |-> 0, start_of_first_evlr |-> 0]

\* ------------------------------------------------- LasBase: header, saving
\* np.unique(array, return_counts=True)[1]: how often each value of the
\* array is there, the values in increasing order
np_unique_counts(array) ==
    LET unique == SortedSeq({array[k] : k \in 1..Len(array)})
    IN  [j \in 1..Len(unique) |->
            Cardinality({k \in 1..Len(array) : array[k] = unique[j]})]

\* ScaledArrayView(array, scale, offset): array * scale + offset
ScaledArrayView(array, scale, offset) ==
    [i \in 1..Len(array) |-> array[i] * scale + offset]

\* LasBase.x, y and z, by the number of the axis
LasBase_scaled(l, name, axis) ==
    ScaledArrayView(PackedPointRecord_getitem(l.points_data, name).value,
                    l.header.scales[axis], l.header.offsets[axis])

\* LasBase.update_header; point_size is the header's
\* point_data_record_length
LasBase_update_header(l) ==
    LET n  == Len(l.points_data.array.data)
        h  == [l.header EXCEPT
                 !.point_format_id = l.points_data.point_format.id,
                 !.point_count = n,
                 !.point_size = ItemSize(l.points_data.array.dtype)]
        x  == LasBase_scaled(l, "X", 1)
        y  == LasBase_scaled(l, "Y", 2)
        z  == LasBase_scaled(l, "Z", 3)
    IN  [l EXCEPT !.header =
           IF n > 0
           THEN [h EXCEPT
                   !.maxs = <<ColumnMax(x), ColumnMax(y), ColumnMax(z)>>,
                   !.mins = <<ColumnMin(x), ColumnMin(y), ColumnMin(z)>>,
                   !.number_of_points_by_return =
                       np_unique_counts(
                           PackedPointRecord_getitem(l.points_data,
                                                     "return_number").value)]
           ELSE h]

\* the setter of LasBase.points
LasBase_set_points(l, value) ==
    IF value.dtype # l.points_data.array.dtype
    THEN [err |-> "IncompatibleDataFormat", las |-> l]
    ELSE LET new_point_record ==
                 [point_format |-> l.points_data.point_format, array |-> value]
         IN  IF VersionNotCompatibleWithFmt(new_point_record.point_format.id,
                                            l.header.version)
             THEN [err |-> "IncompatibleVersion", las |-> l]
             ELSE [err |-> "",
                   las |-> LasBase_update_header(
                               [l EXCEPT !.points_data = new_point_record])]

\* the parameters of LasWriter.__init__ that a call may name
LasWriterParameters == {"vlrs", "do_compress", "laz_backends", "closefd"}

\* LazBackend.detect_available()
detect_available == CHOOSE b \in BackendChoices : "Lazrs" \in b.constructible

\* LasWriter(dest, header, vlrs, **keywords): the new writer s and its
\* arguments c; a keyword that is no parameter raises TypeError before
\* __init__ runs. The do_compress of a LasBase call is "None", "True" or
\* "False"; the writer only tests it for truth.
LasWriter_init(dest_, h, vlrlist, keywords) ==
    LET laz == IF "laz_backends" \in DOMAIN keywords THEN keywords.laz_backends
               ELSE detect_available
        s   == [header |-> LasWriter_init_header(h), vlrs |-> vlrlist,
                point_format |-> None, point_writer |-> None, done |-> FALSE,
                dest |-> dest_, encLog |-> <<>>, wlog |-> <<>>, ctorLog |-> <<>>,
                child |-> HealthyChild, err |-> ""]
    IN  IF ~(DOMAIN keywords \subseteq LasWriterParameters)
        THEN [s |-> Raise(s, "TypeError: __init__() got an unexpected keyword argument"),
              c |-> None]
        ELSE [s |-> s,
              c |-> [closefd |-> keywords.closefd,
                     do_compress |-> (keywords.do_compress = "True"),
                     laz_backends |-> laz.laz_backends,
                     constructible |-> laz.constructible]]

\* the size of one descriptor of an ExtraBytes VLR
ExtraBytesStructSize == 192

\* the VLRs as the writer takes them: user id, record id and payload length
RawVlrs(vlrlist) ==
    [i \in 1..Len(vlrlist) |->
        IF vlrlist[i].kind = "ExtraBytesVlr"
        THEN [user_id |-> "LASF_Spec", record_id |-> 4,
              payload |-> ExtraBytesStructSize * Len(vlrlist[i].extra_bytes_structs)]
        ELSE OneVlr[1]]

\* the point record as the writer takes it: the rows of its points
WriterPoints(rec) ==
    [point_format |-> PointFormat(rec.point_format.id),
     array |-> [i \in 1..Len(rec.array.data) |->
                  [X |-> rec.array.data[i].X, Y |-> rec.array.data[i].Y,
                   Z |-> rec.array.data[i].Z,
                   return_number |->
                       PackedPointRecord_getitem(rec, "return_number").value[i]]]]

\* the end of the with statement: what writer.write raised, or else what
\* close raised, and the stream as close left it
WithResult(l, s1, s2) ==
    [err |-> IF s1.err # "" THEN s1.err ELSE s2.err, las |-> l, dest |-> s2.dest]

\* LasWriter.__exit__: close, also after an exception
LasWriter_exit(l, s1, c) == WithResult(l, s1, LasWriter_close([s1 EXCEPT !.err = ""], c))

\* with LasWriter(...) as writer: writer.write(self.points_data); s1 is the
\* writer after the call of write
WithWriter(l, w, out_stream) ==
    IF w.s.err # "" THEN [err |-> w.s.err, las |-> l, dest |-> out_stream]
    ELSE CHOOSE r \in
             { LasWriter_exit(l, s1, w.c) :
                 s1 \in {LasWriter_write(w.s, WriterPoints(l.points_data), w.c)} } :
             TRUE

\* LasBase.write_to: the writer is built with the keyword laz_backend. The
\* result is the error raised and the stream as it is left.
LasBase_write_to(l, out_stream, do_compress, laz_backend) ==
    CHOOSE r \in
        { WithWriter(l, w, out_stream) :
            w \in {LasWriter_init(out_stream, l.header, RawVlrs(l.vlrs),
                                  [do_compress |-> do_compress, closefd |-> FALSE,
                                   laz_backend |-> laz_backend])} } :
        TRUE

\* filename.split(".")[-1].lower() == "laz", for the names of the model
is_ext_laz(filename) == filename \in {"out.laz", "out.LAZ"}

\* open(filename, mode="wb+"): a new, empty file
OpenFile == [bytes |-> <<>>, pos |-> 0, closed |-> FALSE]

\* LasBase.write_to_file: the with statement closes the file
LasBase_write_to_file(l, filename, do_compress) ==
    LET do_compress1 == IF is_ext_laz(filename) /\ do_compress = "None"
                        THEN "True" ELSE do_compress
        r == LasBase_write_to(l, OpenFile, do_compress1, detect_available)
    IN  [r EXCEPT !.dest.closed = TRUE]

\* LasBase.write: a destination is a path (a string) or a stream
LasBase_write(l, destination, do_compress, laz_backend) ==
    IF destination.kind = "str"
    THEN LasBase_write_to_file(l, destination.filename, "None")
    ELSE LasBase_write_to(l, destination.stream,
                          IF do_compress = "None" THEN "False" ELSE do_compress,
                          laz_backend)

\* ----------------------------------------------------------------- state
VARIABLES
    conf,          \* the arguments of LasWriter(...): closefd, do_compress,
                   \* laz_backends (and what is constructible), the header's format id
    header,        \* LasWriter.header
    vlrs,          \* LasWriter.vlrs
    point_format,  \* LasWriter.point_format
    point_writer,  \* LasWriter.point_writer
    done,          \* LasWriter.done
    dest,          \* LasWriter.dest: bytes, pos, closed
    encLog,        \* the calls made on the point writer, in order
    wlog,          \* the writes made on dest, in order
    ctorLog,       \* the turns of the back-end selection loop, in order
    trace,         \* the calls made on the LasWriter, with their outcome
    arg,           \* the argument of the latest call
    written,       \* the records of the chunks whose write call returned
    las,           \* a LasData: its point record, VLR list and plain attributes
    lasCall,       \* the latest call on the LasData: its arguments, its error and
                   \* the LasData it was made on
    lasCalls       \* the number of calls made on the LasData

vars == <<conf, header, vlrs, point_format, point_writer, done, dest, encLog,
          wlog, ctorLog, trace, arg, written, las, lasCall, lasCalls>>

writerVars == <<conf, header, vlrs, point_format, point_writer, done, dest, encLog,
                wlog, ctorLog, trace, arg, written>>

State ==
    [header |-> header, vlrs |-> vlrs, point_format |-> point_format,
     point_writer |-> point_writer, done |-> done, dest |-> dest,
     encLog |-> encLog, wlog |-> wlog, ctorLog |-> ctorLog, child |-> conf.child,
     err |-> ""]

NoArg == [points |-> None, evlrs |-> <<>>]

Commit(s, call, a) ==
    /\ header' = s.header
    /\ vlrs' = s.vlrs
    /\ point_format' = s.point_format
    /\ point_writer' = s.point_writer
    /\ done' = s.done
    /\ dest' = s.dest
    /\ encLog' = s.encLog
    /\ wlog' = s.wlog
    /\ ctorLog' = s.ctorLog
    /\ trace' = Append(trace, [call EXCEPT !.err = s.err])
    /\ arg' = a
    /\ written' = IF call.op = "write" /\ s.err = "" THEN written \o a.points.array
                  ELSE written
    /\ UNCHANGED <<conf, las, lasCall, lasCalls>>

InitWith(version, affine, do_compress, backends, closefd, vlrlist) ==
    /\ conf = [closefd |-> closefd, do_compress |-> do_compress,
               laz_backends |-> backends.laz_backends,
               constructible |-> backends.constructible,
               child |-> IF "child" \in DOMAIN backends THEN backends.child
                         ELSE HealthyChild,
               point_format_id |-> GivenHeader(version, affine).point_format_id]
    /\ header = LasWriter_init_header(GivenHeader(version, affine))
    /\ vlrs = vlrlist
    /\ point_format = None
    /\ point_writer = None
    /\ done = FALSE
    /\ dest = [bytes |-> <<>>, pos |-> 0, closed |-> FALSE]
    /\ encLog = <<>>
    /\ wlog = <<>>
    /\ ctorLog = <<>>
    /\ trace = <<>>
    /\ arg = NoArg
    /\ written = <<>>

Uncompressed == [laz_backends |-> <<>>, constructible |-> {}]

UnitAffine == CHOOSE a \in Affines : a.scales = <<1, 1, 1>>

NoCall == [op |-> "none"]

\* no LasData is at work
NoLas ==
    /\ las = None
    /\ lasCall = NoCall
    /\ lasCalls = 0

WriterInit ==
    \E version \in Versions :
        \/ \E affine \in Affines :
              InitWith(version, affine, FALSE, Uncompressed, FALSE, OneVlr)
        \/ \E closefd \in BOOLEAN :
              InitWith(version, UnitAffine, FALSE, Uncompressed, closefd, OneVlr)
        \/ \E closefd \in BOOLEAN, backends \in BackendChoices :
              InitWith(version, UnitAffine, TRUE, backends, closefd, OneVlr)
        \/ \E vlrlist \in VlrLists \ {OneVlr} :
              /\ version = "1.2"
              /\ \/ InitWith(version, UnitAffine, FALSE, Uncompressed, FALSE, vlrlist)
                 \/ \E backends \in {b \in BackendChoices : "Lazrs" \in b.constructible} :
                       InitWith(version, UnitAffine, TRUE, backends, FALSE, vlrlist)
        \/ \E child \in Children :
              /\ version = "1.4"
              /\ InitWith(version, UnitAffine, TRUE,
                          [laz_backends |-> <<"Laszip">>, constructible |-> {"Laszip"},
                           child |-> child],
                          FALSE, OneVlr)

Init == WriterInit /\ NoLas

\* the points handed to write so far
RECURSIVE Given(_)
Given(tr) ==
    IF tr = <<>> THEN 0
    ELSE (IF Head(tr).op = "write" THEN Head(tr).n ELSE 0) + Given(Tail(tr))

Call(op, n) == [op |-> op, n |-> n, err |-> ""]

Write ==
    /\ Len(trace) < MaxCalls
    /\ \E points \in PointRecords(MaxPoints - Given(trace)) :
          Commit(LasWriter_write(State, points, conf),
                 Call("write", Len(points.array)), [NoArg EXCEPT !.points = points])

WriteEvlrs ==
    /\ Len(trace) < MaxCalls
    /\ \E evlrs \in EvlrLists :
          Commit(LasWriter_write_evlrs(State, evlrs), Call("write_evlrs", Len(evlrs)),
                 [NoArg EXCEPT !.evlrs = evlrs])

Close ==
    /\ Len(trace) < MaxCalls
    /\ Commit(LasWriter_close(State, conf), Call("close", 0), NoArg)

Next == Write \/ WriteEvlrs \/ Close

Spec == Init /\ [][Next]_vars

\* ------------------------------------------------- calls on a LasData
\* the values a dimension is set to: a width of 3, 4 or 5 bits holds 5, and
\* none of them holds 40
Columns ==
    UNION { { [i \in 1..n |-> 5], [i \in 1..n |-> 40],
              [i \in 1..n |-> IF i = n THEN 40 ELSE 5] } : n \in 1..MaxLen }

ZeroColumns == { [i \in 1..n |-> 0] : n \in 0..MaxLen }

LongText == "Lorem ipsum dolor sit amet, consectetur adipiscing elit. Sed non risus"

\* name, type and description of the extra dimensions that are asked for
ExtraDimParams ==
    { [name |-> "a", type |-> "uint8", description |-> ""],
      [name |-> "a", type |-> "int32", description |-> ""],
      [name |-> "Name With Spaces", type |-> "int32", description |-> "a fine one"],
      [name |-> LongText, type |-> "int32", description |-> ""],
      [name |-> "b", type |-> "int32", description |-> LongText],
      [name |-> "b", type |-> "i16", description |-> ""],
      [name |-> LongText, type |-> "i16", description |-> ""] }

\* a record of the rows given: the fields a row does not name are 0
RecordOf(fmt, rows) ==
    [point_format |-> fmt,
     array |-> [dtype |-> PointFormat_descr(fmt),
                data |-> [i \in 1..Len(rows) |->
                            [f \in FieldNames(PointFormat_descr(fmt)) |->
                               IF f \in DOMAIN rows[i] THEN rows[i][f] ELSE 0]]]]

\* scale and offset of the files the LasData are read from
FileAffine == CHOOSE a \in Affines : a.scales = <<2, 1, 3>>

\* the header of a file that holds the points of a record, which is the
\* header of a LasData read from the file or newly created: the format and
\* the number of the points, the extrema of their scaled coordinates (0
\* without points) and, for each return number of the table, the number of
\* points that have it
HeaderOf(rec) ==
    LET version == IF rec.point_format.id >= 6 THEN "1.4" ELSE "1.2"
        h  == GivenHeader(version, FileAffine)
        n  == Len(rec.array.data)
        rn == PackedPointRecord_getitem(rec, "return_number").value
        scaled(name, axis) ==
            {rec.array.data[i][name] * h.scales[axis] + h.offsets[axis] : i \in 1..n}
    IN  [h EXCEPT
           !.point_format_id = rec.point_format.id,
           !.point_size = ItemSize(rec.array.dtype),
           !.point_count = n,
           !.maxs = IF n = 0 THEN <<0, 0, 0>>
                    ELSE <<SetMax(scaled("X", 1)), SetMax(scaled("Y", 2)),
                           SetMax(scaled("Z", 3))>>,
           !.mins = IF n = 0 THEN <<0, 0, 0>>
                    ELSE <<SetMin(scaled("X", 1)), SetMin(scaled("Y", 2)),
                           SetMin(scaled("Z", 3))>>,
           !.number_of_points_by_return =
               [r \in 1..ReturnTableLen(version) |->
                   Cardinality({i \in 1..n : rn[i] = r})]]

\* the LasData of a record with the header of its file
LasDataOf(rec) == LasBase_init(HeaderOf(rec), rec)

\* the LasData the calls start from: a new one without points, and those read
\* from files of the formats 0, 1 and 6 and of a file with an extra dimension
LasDatas ==
    { LasDataOf(PackedPointRecord_zeros(PointFormatWith(0, <<>>), 0)),
      LasDataOf(RecordOf(PointFormatWith(0, <<>>),
          << [X |-> 1, Z |-> 7, intensity |-> 300, bit_fields |-> 74,
              raw_classification |-> 162, point_source_id |-> 9],
             [X |-> 2, intensity |-> 12, bit_fields |-> 9,
              raw_classification |-> 2, user_data |-> 3] >>)),
      LasDataOf(RecordOf(PointFormatWith(1, <<>>),
          << [Y |-> 4, bit_fields |-> 145, raw_classification |-> 35,
              gps_time |-> 3] >>)),
      LasDataOf(RecordOf(PointFormatWith(6, <<>>),
          << [X |-> 6, bit_fields |-> 33, classification_flags |-> 149,
              classification |-> 40, gps_time |-> 2] >>)),
      [ LasDataOf(RecordOf(
            PointFormatWith(0, <<[name |-> "a", type |-> "uint8"]>>),
            << [X |-> 1, intensity |-> 8, bit_fields |-> 74,
                raw_classification |-> 162, a |-> 7] >>))
          EXCEPT !.vlrs =
            << [kind |-> "OtherVlr"],
               [ExtraBytesVlr EXCEPT !.extra_bytes_structs =
                  <<ExtraBytesStruct("uint8", "a", "")>>] >> ] }

InitLas ==
    /\ InitWith("1.2", UnitAffine, FALSE, Uncompressed, FALSE, OneVlr)
    /\ las \in LasDatas
    /\ lasCall = NoCall
    /\ lasCalls = 0

CommitLas(r, call) ==
    /\ las' = r.las
    /\ lasCall' = [call EXCEPT !.err = r.err, !.before = las]
    /\ lasCalls' = lasCalls + 1
    /\ UNCHANGED writerVars

LasCall(op, key, value) ==
    [op |-> op, key |-> key, value |-> value, err |-> "", before |-> None]

\* las[key] = value
SetItem ==
    /\ lasCalls < MaxLasCalls
    /\ \E key \in {"return_number", "classification", "a"}, value \in Columns :
          CommitLas(LasBase_setitem(las, key, value), LasCall("setitem", key, value))

\* las.key = value
SetAttr ==
    /\ lasCalls < MaxLasCalls
    /\ \E key \in {"red", "gps_time", "flight"}, value \in ZeroColumns :
          CommitLas(LasBase_setattr(las, key, value), LasCall("setattr", key, value))

\* las.add_extra_dim(name, type, description)
AddExtraDim ==
    /\ lasCalls < MaxLasCalls
    /\ \E p \in ExtraDimParams :
          CommitLas(LasBase_add_extra_dim(las, p.name, p.type, p.description),
                    LasCall("add_extra_dim", p.name, p))

\* las = pylas.convert(las, point_format_id = id)
Convert ==
    /\ lasCalls < MaxLasCalls
    /\ \E id \in PointFormatIds :
          CommitLas(convert(las, id), LasCall("convert", "", id))

\* the streams that are read for count points of a format: one that holds
\* them all, one a whole point short, and both with the first bytes of one
\* point more
Streams(id, count) ==
    { [i \in 1..whole |->
          [kind |-> "point", size |-> PointSize(id),
           data |-> [X |-> i, Y |-> 0, Z |-> -i, return_number |-> 1]]]
        \o tail :
        whole \in {count - 1, count},
        tail \in {<<>>, <<[kind |-> "frag", size |-> 7, data |-> None]>>} }

\* the LasData of the points read, with the header of their file
LasDataRead(id, array) ==
    LasDataOf(RecordOf(PointFormatWith(id, <<>>),
        [i \in 1..Len(array) |->
            [X |-> array[i].X, Y |-> array[i].Y, Z |-> array[i].Z,
             bit_fields |-> array[i].return_number]]))

\* las = LasData(points = PackedPointRecord.from_stream(stream, format, count))
FromStream ==
    /\ lasCalls < MaxLasCalls
    /\ \E id \in {0, 6}, count \in 1..MaxLen :
          \E stream \in Streams(id, count) :
             LET r == PackedPointRecord_from_stream(stream, PointFormat(id), count)
             IN  CommitLas([err |-> r.err,
                            las |-> IF r.err = "" THEN LasDataRead(id, r.array)
                                    ELSE las],
                           LasCall("from_stream", "",
                                   [id |-> id, count |-> count, stream |-> stream]))

\* UnpackedPointRecord.from_stream(stream, format, count)
FromStreamUnpacked ==
    /\ lasCalls < MaxLasCalls
    /\ \E id \in {0, 6}, count \in 1..MaxLen :
          \E stream \in Streams(id, count) :
             LET r == UnpackedPointRecord_from_stream(stream, id, count, 1)
             IN  CommitLas([err |-> r.err, las |-> las],
                           LasCall("from_stream_unpacked", "",
                                   [id |-> id, count |-> count, stream |-> stream,
                                    frames |-> r.frames, reads |-> r.reads,
                                    rec |-> r.rec]))

\* las.update_header()
UpdateHeader ==
    /\ lasCalls < MaxLasCalls
    /\ CommitLas([err |-> "", las |-> LasBase_update_header(las)],
                 LasCall("update_header", "", ""))

\* las.points = las.points[:n], or an array of another format
SetPoints ==
    /\ lasCalls < MaxLasCalls
    /\ \E value \in
            { [las.points_data.array EXCEPT !.data = SubSeq(@, 1, n)] :
                  n \in 0..Len(las.points_data.array.data) }
              \cup {np_zeros(1, PointFormat_descr(PointFormatWith(1, <<>>)))} :
          CommitLas(LasBase_set_points(las, value), LasCall("points", "", value))

\* where write saves to: a path or a stream
Destinations ==
    { [kind |-> "str", filename |-> "out.las"],
      [kind |-> "str", filename |-> "out.laz"],
      [kind |-> "stream", stream |-> OpenFile] }

\* las.write(destination, do_compress): out is the file or stream afterwards
WriteLas ==
    /\ lasCalls < MaxLasCalls
    /\ \E destination \in Destinations, do_compress \in {"None", "True", "False"} :
          LET r == LasBase_write(las, destination, do_compress, detect_available)
          IN  CommitLas(r, [op |-> "write", key |-> destination,
                            value |-> do_compress, err |-> "", before |-> None,
                            out |-> r.dest])

NextLas ==
    \/ SetItem \/ SetAttr \/ AddExtraDim \/ Convert \/ FromStream
    \/ FromStreamUnpacked \/ UpdateHeader \/ SetPoints \/ WriteLas

SpecLas == InitLas /\ [][NextLas]_vars

\* ------------------------------------------------- calls on lasdata.LasData
\* the header of a file of n points
FileHeader(point_format_id, vlrlist, n) ==
    [point_data_format_id |-> point_format_id, number_of_point_records |-> n,
     header_size |-> LegacyHeaderSize, number_of_vlr |-> Len(vlrlist),
     offset_to_point_data |-> LegacyHeaderSize + total_size_in_bytes(vlrlist)]

FilePoints ==
    << [X |-> 1, Y |-> 0, Z |-> 7, intensity |-> 300, bit_fields |-> 74,
        raw_classification |-> 162, scan_angle_rank |-> 0, user_data |-> 0,
        point_source_id |-> 9],
       [X |-> 2, Y |-> 5, Z |-> 0, intensity |-> 12, bit_fields |-> 9,
        raw_classification |-> 2, scan_angle_rank |-> 0, user_data |-> 3,
        point_source_id |-> 0] >>

\* the files that are opened: a .las file, a .laz file, and .laz files whose
\* VLRs lack the LasZip VLR
Files ==
    { [header |-> FileHeader(0, OneVlr, 2), vlrs |-> OneVlr, points |-> FilePoints],
      [header |-> FileHeader(CompressedBit, OneVlr \o <<LasZipVlr>>, 2),
       vlrs |-> OneVlr \o <<LasZipVlr>>, points |-> FilePoints],
      [header |-> FileHeader(CompressedBit, OneVlr, 2), vlrs |-> OneVlr,
       points |-> FilePoints],
      [header |-> FileHeader(CompressedBit, <<>>, 1), vlrs |-> <<>>,
       points |-> SubSeq(FilePoints, 1, 1)] }

InitLegacy ==
    /\ InitWith("1.2", UnitAffine, FALSE, Uncompressed, FALSE, OneVlr)
    /\ NoLas

\* las = LasData.open(file)
Open ==
    /\ las = None
    /\ \E file \in Files :
          LET r == LasData_init(file)
          IN  /\ las' = r.las
              /\ lasCall' = [op |-> "open", file |-> file, err |-> r.err,
                             reads |-> r.reads, before |-> las]
              /\ UNCHANGED lasCalls
              /\ UNCHANGED writerVars

\* las.name = value, for a sub-field that __init__ unpacked
SetField ==
    /\ las # None
    /\ lasCalls < MaxLasCalls
    /\ \E name \in {"return_number", "edge_of_flight_line", "classification",
                     "withheld"} :
          \E v \in (IF name \in {"return_number", "classification"}
                    THEN {5, 3} ELSE {0, 1}) :
             /\ las' = [las EXCEPT ![name] = [i \in 1..Len(@) |-> v]]
             /\ lasCall' = [op |-> "set", name |-> name, err |-> "", before |-> las]
             /\ lasCalls' = lasCalls + 1
             /\ UNCHANGED writerVars

\* las.write_to(out_stream, do_compress)
WriteTo ==
    /\ las # None
    /\ lasCalls < MaxLasCalls
    /\ \E do_compress \in BOOLEAN :
          LET r == LasData_write_to(las, do_compress)
          IN  /\ las' = r.las
              /\ lasCall' = [op |-> "write_to", do_compress |-> do_compress,
                             err |-> r.err, out |-> r.out, before |-> las]
              /\ lasCalls' = lasCalls + 1
              /\ UNCHANGED writerVars

NextLegacy == Open \/ SetField \/ WriteTo

SpecLegacy == InitLegacy /\ [][NextLegacy]_vars

\* ------------------------------------------------- the order of the calls
OpRank(op) ==
    CASE op = "write" -> 1
      [] op = "write_evlrs" -> 2
      [] op = "close" -> 3

\* open -> write* -> write_evlrs? -> close, as far as the calls went
FollowsContract(tr) ==
    \A i \in 1..(Len(tr) - 1) :
        \/ OpRank(tr[i].op) < OpRank(tr[i + 1].op)
        \/ tr[i].op = "write" /\ tr[i + 1].op = "write"

NoError(tr) == \A i \in 1..Len(tr) : tr[i].err = ""

Closed(tr) == tr # <<>> /\ tr[Len(tr)].op = "close"

Last(seq) == seq[Len(seq)]

\* the step is a call of op: the entry it appends to the trace
IsCall(op) == trace' # trace /\ Last(trace').op = op

CountOf(log, x) == Cardinality({i \in 1..Len(log) : log[i] = x})

Wrote(what) == \E i \in 1..Len(wlog) : wlog[i].what = what

\* ------------------------------------------------------------------ claims

\* C1: writing an n-record point record uncompressed (one write, then close)
\* and reading the destination back yields exactly the n records written,
\* for every n >= 0.
C1_RoundTrip ==
    ( /\ ~conf.do_compress
      /\ Len(trace) = 2
      /\ trace[1].op = "write" /\ trace[2].op = "close"
      /\ NoError(trace) )
    => LET r == ReadBack(dest.bytes)
       IN  r.err = "" /\ Len(r.array) = trace[1].n /\ r.array = written

\* write(chunk)* then a close that rewrote the header
WritesThenClose(tr) ==
    /\ Closed(tr)
    /\ tr[Len(tr)].err = ""
    /\ \A i \in 1..(Len(tr) - 1) : tr[i].op = "write"
    /\ point_writer # None

OnlyWrites(tr) == \A i \in 1..Len(tr) : tr[i].op = "write"

\* X * x_scale + x_offset of the records written, for one axis
ScaledValues(name, axis) ==
    {written[i][name] * header.scales[axis] + header.offsets[axis] :
        i \in 1..Len(written)}

RECURSIVE Sum(_)
Sum(seq) == IF seq = <<>> THEN 0 ELSE Head(seq) + Sum(Tail(seq))

\* C2: after write(chunk)* and close, the point_count of the header at
\* offset 0 of the destination is the number of records of the chunks written.
C2_PointCount ==
    WritesThenClose(trace) =>
        /\ HeaderAtStart(dest.bytes) # None
        /\ HeaderAtStart(dest.bytes).point_count = Len(written)

C2_Witness ==
    /\ WritesThenClose(trace)
    /\ Len(trace) = 3
    /\ trace[1].n = 1 /\ trace[2].n = 1
    /\ NoError(trace)
    /\ point_writer.kind = "LasZipProcessPointWriter"

\* C3: after non-empty chunks and close, the header's max and min of each
\* axis are the largest and smallest X * scale + offset of the points written.
C3_MinMax ==
    (WritesThenClose(trace) /\ written # <<>>) =>
        LET hdr == HeaderAtStart(dest.bytes)
        IN  /\ hdr.maxs = <<SetMax(ScaledValues("X", 1)), SetMax(ScaledValues("Y", 2)),
                            SetMax(ScaledValues("Z", 3))>>
            /\ hdr.mins = <<SetMin(ScaledValues("X", 1)), SetMin(ScaledValues("Y", 2)),
                            SetMin(ScaledValues("Z", 3))>>

\* C4: after any write calls the per-return counts sum to at most the point
\* count, and to exactly the point count when every return number written
\* is one of the table's slots 1..len(table).
C4_ReturnCounts ==
    OnlyWrites(trace) =>
        /\ Sum(header.number_of_points_by_return) <= header.point_count
        /\ (\A i \in 1..Len(written) :
               written[i].return_number \in 1..Len(header.number_of_points_by_return))
           => Sum(header.number_of_points_by_return) = header.point_count

\* C5, as claimed: a non-empty chunk whose format is not the format id of
\* the header given at open is rejected with IncompatibleFormat, the first
\* chunk included.
C5_OpenedFormat ==
    ( /\ trace # <<>>
      /\ Last(trace).op = "write"
      /\ Last(trace).n > 0
      /\ arg.points.point_format.id # conf.point_format_id
      /\ ~VersionNotCompatibleWithFmt(arg.points.point_format.id, header.version) )
    => Last(trace).err = "IncompatibleFormat"

\* C5, amended: the first non-empty chunk the writer takes sets the writer's
\* point format; once the header counts points, a non-empty chunk of another
\* format is rejected with IncompatibleFormat (WriteAfterDone once the writer
\* is done), and a rejected chunk changes neither the header nor the
\* destination nor the point writer.
C5_FormatOfFirstChunk ==
    [][ (IsCall("write") /\ Last(trace').n > 0) =>
          /\ (header.point_count > 0 /\ ~done
                 /\ arg'.points.point_format # point_format)
             => Last(trace').err = "IncompatibleFormat"
          /\ (Last(trace').err = "IncompatibleFormat")
             => /\ arg'.points.point_format # point_format
                /\ UNCHANGED <<header, dest, point_writer, point_format, wlog, encLog>>
          /\ (Last(trace').err = "")
             => /\ point_format' = arg'.points.point_format
                /\ header'.point_format_id = arg'.points.point_format.id ]_vars

C5_Witness ==
    /\ trace # <<>>
    /\ Last(trace).op = "write"
    /\ Last(trace).err = "IncompatibleFormat"
    /\ header.point_count > 0

\* C6: write_evlrs on a header version lower than 1.4 fails with
\* EvlrNotSupported for every EVLR list and changes nothing: no call on the
\* point writer, done as before, the header and the destination as before.
C6_EvlrNotSupported ==
    [][ (IsCall("write_evlrs") /\ VersionLess(header.version, "1.4")) =>
          /\ Last(trace').err = "EvlrNotSupported"
          /\ UNCHANGED <<header, done, dest, point_writer, encLog, wlog, vlrs,
                         point_format>> ]_vars

C6_Witness ==
    /\ trace # <<>>
    /\ Last(trace).op = "write_evlrs"
    /\ Last(trace).err = "EvlrNotSupported"
    /\ arg.evlrs # <<>>
    /\ point_writer # None

\* C7: a second write_evlrs is rejected, so the destination sees the EVLRs
\* of at most one write_evlrs call.
C7_EvlrsOnce == CountOf([i \in 1..Len(wlog) |-> wlog[i].what], "evlrs") <= 1

\* C8: once the point writer has been finalized no chunk is forwarded to it.
C8_NoWriteAfterDone ==
    \A i, j \in 1..Len(encLog) :
        (i < j /\ encLog[i] = "done") => encLog[j] # "write_points"

\* the laszip child, when there is one, compresses all it is given and exits
\* with code 0
ChildRuns == conf.child.returncode = 0 /\ ~conf.child.early

\* C9: in a run open -> write* -> write_evlrs? -> close that wrote points,
\* done() of the point writer is called exactly once, by write_evlrs when it
\* wrote EVLRs and by close otherwise, and the header written at offset 0 is
\* the last write on the destination (a laszip child that fails is the
\* matter of C34).
C9_DoneOnceHeaderLast ==
    (FollowsContract(trace) /\ point_writer # None /\ ChildRuns) =>
        IF Closed(trace)
        THEN /\ CountOf(encLog, "done") = 1
             /\ Last(wlog) = [what |-> "header", at |-> 0]
             /\ Wrote("points") \/ Wrote("laz")
        ELSE CountOf(encLog, "done") = (IF Wrote("evlrs") THEN 1 ELSE 0)

C9_Witness ==
    /\ FollowsContract(trace)
    /\ Closed(trace)
    /\ Wrote("evlrs")
    /\ Wrote("points")
    /\ NoError(trace)

\* the calls a point writer accepts, in order
EncoderOrder(log) ==
    \/ log = <<>>
    \/ /\ log[1] = "write_initial_header_and_vlrs"
       /\ \A i \in 2..Len(log) :
             \/ log[i] = "write_points"
                  /\ \A j \in 2..i : log[j] = "write_points"
             \/ log[i] = "done" /\ log[i - 1] \in {"write_points",
                                                  "write_initial_header_and_vlrs"}
             \/ log[i] = "write_updated_header" /\ log[i - 1] = "done"

\* C10: in a run that follows open -> write* -> write_evlrs? -> close the
\* calls on the point writer are write_initial_header_and_vlrs, write_points*,
\* done, write_updated_header in this order, and no call is made without a
\* point writer (a laszip child that fails is the matter of C34).
C10_EncoderOrder ==
    (FollowsContract(trace) /\ ChildRuns) =>
        /\ EncoderOrder(encLog)
        /\ point_writer = None => encLog = <<>>

C10_Witness ==
    /\ FollowsContract(trace)
    /\ point_writer.kind = "LazrsPointWriter"
    /\ encLog = <<"write_initial_header_and_vlrs", "write_points", "write_points",
                  "done", "write_updated_header">>

\* the VLR blocks at the head of a sequence of blocks
RECURSIVE LeadingVlrs(_)
LeadingVlrs(blocks) ==
    IF blocks = <<>> \/ Head(blocks).kind # "vlr" THEN <<>>
    ELSE <<Head(blocks)>> \o LeadingVlrs(Tail(blocks))

\* where the first write of point data (the points, or the place of the
\* chunk table offset that precedes them) went
FirstPointDataAt(log) ==
    log[SetMin({i \in 1..Len(log) : log[i].what \in {"points", "offset"}})].at

\* C11: in a run open -> write* -> write_evlrs? -> close, the header at
\* offset 0 of the destination has number_of_vlr = the number of VLRs written
\* after it and offset_to_point_data = header size + the byte length of these
\* VLRs; with the lazrs writer the LasZip VLR is one of them; and the point
\* data starts at offset_to_point_data.
C11_OffsetToPointData ==
    [][ (FollowsContract(trace') /\ HeaderAtStart(dest'.bytes) # None) =>
          LET hdr == HeaderAtStart(dest'.bytes)
              vl  == LeadingVlrs(Tail(dest'.bytes))
          IN  /\ hdr.number_of_vlr = Len(vl)
              /\ hdr.offset_to_point_data = HeaderSize(hdr.version) + SizeOf(vl)
              /\ point_writer'.kind = "LazrsPointWriter"
                    => /\ vl # <<>> /\ Last(vl).data = LasZipVlr
                       /\ Len(vl) = Len(vlrs')
              /\ (Wrote("points")' \/ Wrote("offset")')
                    => FirstPointDataAt(wlog') = hdr.offset_to_point_data ]_vars

C11_Witness ==
    /\ FollowsContract(trace)
    /\ Closed(trace)
    /\ NoError(trace)
    /\ point_writer.kind = "LazrsPointWriter"
    /\ Len(vlrs) = 3
    /\ HeaderAtStart(dest.bytes).number_of_vlr = 3

\* the first entry of the preference list whose constructor succeeds (0 if
\* there is none)
FirstBuildable(c) ==
    LET I == {i \in 1..Len(c.laz_backends) :
                 /\ c.laz_backends[i] \in {"Laszip", "LazrsParallel", "Lazrs"}
                 /\ c.laz_backends[i] \in c.constructible}
    IN  IF I = {} THEN 0 ELSE SetMin(I)

\* the point writer each back-end stands for
WriterOf(backend) ==
    IF backend = "Laszip"
    THEN [kind |-> "LasZipProcessPointWriter", parallel |-> FALSE]
    ELSE [kind |-> "LazrsPointWriter", parallel |-> backend = "LazrsParallel"]

\* the turns of the selection loop made by the step
SelectionRun == SubSeq(ctorLog', Len(ctorLog) + 1, Len(ctorLog'))

\* the step is a write call that has to select a back-end
SelectingWrite ==
    /\ IsCall("write")
    /\ Last(trace').n > 0
    /\ conf.do_compress
    /\ ~done
    /\ header.point_count = 0
    /\ ~VersionNotCompatibleWithFmt(arg'.points.point_format.id, header.version)

\* C12: the selection builds the back-ends in the order of the preference
\* list up to the first one whose constructor succeeds, which becomes the
\* point writer: the entries before it failed (the failure is logged) or were
\* unknown values, and no entry after it is constructed.
C12_FirstConstructible ==
    [][ (SelectingWrite /\ FirstBuildable(conf) > 0) =>
          LET k   == FirstBuildable(conf)
              run == SelectionRun
          IN  /\ Len(run) = k
              /\ \A i \in 1..k : run[i].backend = conf.laz_backends[i]
              /\ \A i \in 1..(k - 1) : run[i].error # ""
              /\ run[k].error = ""
              /\ point_writer'.kind = WriterOf(conf.laz_backends[k]).kind
              /\ point_writer'.kind = "LazrsPointWriter"
                    => point_writer'.parallel = WriterOf(conf.laz_backends[k]).parallel
              /\ Last(trace').err \notin {"NoLazBackendSelected"}
                    \cup {"NoLazBackend: " \o run[i].error : i \in 1..k} ]_vars

C12_Witness ==
    /\ Len(ctorLog) = 2
    /\ ctorLog[1].error # ""
    /\ ctorLog[2] = [backend |-> "Lazrs", error |-> ""]
    /\ Len(conf.laz_backends) = 3
    /\ point_writer.kind = "LazrsPointWriter"
    /\ ~point_writer.parallel

\* C13: when no back-end of a non-empty preference list can be constructed,
\* every entry was tried and the write fails with NoLazBackend carrying the
\* error of the last entry; with an empty list it fails as well, without a
\* turn of the loop; in both cases there is no point writer and nothing
\* reaches the destination.
C13_NoLazBackend ==
    [][ (SelectingWrite /\ FirstBuildable(conf) = 0) =>
          LET run == SelectionRun
              n   == Len(conf.laz_backends)
          IN  /\ IF n = 0
                 THEN Last(trace').err = "NoLazBackendSelected" /\ run = <<>>
                 ELSE /\ Len(run) = n
                      /\ \A i \in 1..n : /\ run[i].backend = conf.laz_backends[i]
                                          /\ run[i].error # ""
                      /\ Last(trace').err = "NoLazBackend: " \o run[n].error
              /\ point_writer' = None
              /\ UNCHANGED <<dest, wlog, encLog>> ]_vars

C13_Witness ==
    /\ trace # <<>>
    /\ Last(trace).op = "write"
    /\ Last(trace).err = "NoLazBackend: Unknown LazBacked"
    /\ Len(ctorLog) = 2
    /\ ctorLog[1].error = "laszip executable not found"
    /\ point_writer = None

\* C17: a LasWriter whose header version is below 1.4 never accepts a chunk
\* of a point format 6..10; as the first chunk it is rejected with
\* IncompatibleVersion before a byte is written, a back-end is built or the
\* writer adopts the chunk's format.
C17_IncompatibleVersion ==
    [][ ( /\ IsCall("write")
          /\ Last(trace').n > 0
          /\ arg'.points.point_format.id >= 6
          /\ VersionLess(header.version, "1.4") ) =>
          /\ Last(trace').err # ""
          /\ (header.point_count = 0 /\ ~done)
                => /\ Last(trace').err = "IncompatibleVersion"
                   /\ UNCHANGED <<header, dest, wlog, encLog, ctorLog, point_format,
                                  point_writer, vlrs, done>> ]_vars

C17_Witness ==
    /\ trace # <<>>
    /\ Last(trace).op = "write"
    /\ Last(trace).err = "IncompatibleVersion"
    /\ arg.points.point_format.id = 6
    /\ header.version = "1.2"
    /\ dest.bytes = <<>>
    /\ point_format = None

\* ------------------------------------------------ claims on the point record
\* the record of a LasData
RecordOfLas(l) == l.points_data

\* len(record)
PointCount(l) == Len(l.points_data.array.data)

\* record[name] read, of a dimension the record has
Read(l, name) == PackedPointRecord_getitem(l.points_data, name).value

BitWidth(sf) == sf.hi - sf.lo

\* the values of a column all fit the bits of the sub-field
FitsWidth(value, sf) == \A i \in 1..Len(value) : value[i] < Pow2(BitWidth(sf))

\* the latest call set a sub-byte dimension of the record to a column of
\* values, one value for each point of the record or more
SubByteAssignment ==
    /\ lasCall.op = "setitem"
    /\ lasCall.key \in SubFieldNames(lasCall.before.points_data.point_format)
    /\ Len(lasCall.value) >= PointCount(lasCall.before)

AssignedSubField == SubField(lasCall.before.points_data.point_format, lasCall.key)

\* C14: after record[d] = v, for a sub-byte dimension d and a column v of
\* values within the bit width of d, record[d] reads v, and every other
\* sub-field of the same composed field reads for every point what it read
\* before the assignment.
C14_SubByteRoundTrip ==
    (SubByteAssignment /\ FitsWidth(lasCall.value, AssignedSubField))
    => /\ lasCall.err = ""
       /\ Read(las, lasCall.key) = lasCall.value
       /\ \A sf \in PointFormat_sub_fields(las.points_data.point_format) :
             (sf.composed = AssignedSubField.composed /\ sf.name # lasCall.key)
             => \A i \in 1..PointCount(lasCall.before) :
                   Read(las, sf.name)[i] = Read(lasCall.before, sf.name)[i]

\* a sub-byte dimension was given new values while another sub-field of the
\* same composed field was not 0
C14_Witness ==
    /\ SubByteAssignment /\ FitsWidth(lasCall.value, AssignedSubField)
    /\ lasCall.err = ""
    /\ Read(lasCall.before, lasCall.key) # lasCall.value
    /\ \E sf \in PointFormat_sub_fields(las.points_data.point_format) :
          /\ sf.composed = AssignedSubField.composed /\ sf.name # lasCall.key
          /\ \E i \in 1..PointCount(lasCall.before) : Read(las, sf.name)[i] # 0

\* C15: record[d] = v for a sub-byte dimension d and a column v with a value
\* beyond the bit width of d raises Overflow and leaves the record as it was,
\* the number of its points and its buffer, whatever the length of v.
C15_OverflowLeavesRecord ==
    ( /\ lasCall.op = "setitem"
      /\ lasCall.key \in SubFieldNames(lasCall.before.points_data.point_format)
      /\ ~FitsWidth(lasCall.value, AssignedSubField) )
    => /\ lasCall.err = "OverflowError"
       /\ PointCount(las) = PointCount(lasCall.before)
       /\ RecordOfLas(las) = RecordOfLas(lasCall.before)

\* the errors of numpy that are a ValueError
ValueErrors ==
    { "ValueError: no field of name",
      "ValueError: negative dimensions are not allowed" }

\* the latest call set, as an attribute of the LasData, a standard dimension
\* that its point format does not have
MissingDimensionSet ==
    /\ lasCall.op = "setattr"
    /\ lasCall.key \in DIMENSIONS
    /\ lasCall.key \notin
          PackedPointRecord_all_dimensions_names(lasCall.before.points_data)

\* C16: las.d = v for a standard dimension d that the point format of las
\* does not have raises the error of an invalid dimension, makes no plain
\* attribute d, and leaves the length and the contents of the record.
C16_InvalidDimension ==
    MissingDimensionSet
    => /\ lasCall.err \in ValueErrors
       /\ lasCall.key \notin las.attrs
       /\ PointCount(las) = PointCount(lasCall.before)
       /\ RecordOfLas(las) = RecordOfLas(lasCall.before)

\* ------------------------------------------------------ claims on LasData
\* the stride of the point buffer
Stride(l) == ItemSize(l.points_data.array.dtype)

\* the dimensions of the record of a LasData, by the names of its format
DimensionsOf(l) ==
    LET names == PointFormat_dimension_names(l.points_data.point_format)
    IN  {names[i] : i \in 1..Len(names)}

\* the latest call asked for an extra dimension of a known type, under a new
\* name, with a name and a description of at most 32 bytes
ExtraDimAdded ==
    /\ lasCall.op = "add_extra_dim"
    /\ lasCall.value.type \in ExtraDimTypes
    /\ Len(ReplaceSpaces(lasCall.value.name)) <= ExtraBytesNameMax
    /\ Len(lasCall.value.description) <= ExtraBytesNameMax
    /\ ReplaceSpaces(lasCall.value.name)
          \notin PackedPointRecord_all_dimensions_names(lasCall.before.points_data)

\* C18: add_extra_dim on a LasData of N points keeps N, widens the stride by
\* the size of the new type, leaves the values of every dimension the record
\* had (whole-byte, sub-byte and extra dimensions), and the new dimension
\* reads 0 for every point.
C18_AddExtraDimKeepsValues ==
    ExtraDimAdded
    => /\ lasCall.err = ""
       /\ PointCount(las) = PointCount(lasCall.before)
       /\ Stride(las) = Stride(lasCall.before) + ExtraDimSize(lasCall.value.type)
       /\ \A name \in DimensionsOf(lasCall.before) :
             Read(las, name) = Read(lasCall.before, name)
       /\ Read(las, ReplaceSpaces(lasCall.value.name))
             = [i \in 1..PointCount(lasCall.before) |-> 0]

\* the message of the error for a name or description of n bytes
BytesTooLong(n) == "bytes too long (" \o ToString(n) \o ", maximum length 32)"

\* the length of the name or description that is too long, the name first
TooLong(p) ==
    IF Len(ReplaceSpaces(p.name)) > ExtraBytesNameMax
    THEN Len(ReplaceSpaces(p.name))
    ELSE IF Len(p.description) > ExtraBytesNameMax THEN Len(p.description)
    ELSE 0

\* C19: add_extra_dim with a name or a description of more than 32 bytes
\* fails with the error "bytes too long (n, maximum length 32)", n the length,
\* and with an unknown type it fails with the error of an unknown extra byte
\* type; the LasData is then as it was before the call: its VLR list, the
\* descriptors, the point format and the stride.
C19_RejectedExtraDim ==
    lasCall.op = "add_extra_dim"
    => /\ (lasCall.value.type \in ExtraDimTypes /\ TooLong(lasCall.value) > 0)
            => /\ lasCall.err = BytesTooLong(TooLong(lasCall.value))
               /\ las = lasCall.before
       /\ lasCall.value.type \notin ExtraDimTypes
            => /\ lasCall.err = "UnknownExtraByteType"
               /\ las = lasCall.before

\* a name of 70 bytes was refused on a LasData with points
C19_Witness ==
    /\ lasCall.op = "add_extra_dim"
    /\ Len(lasCall.value.name) = 70
    /\ lasCall.err = "bytes too long (70, maximum length 32)"
    /\ PointCount(lasCall.before) > 0
    /\ ExtraBytesVlrsAt(las.vlrs) = {}

\* the descriptors of the ExtraBytes VLR of a LasData, none without it
Descriptors(l) ==
    IF ExtraBytesVlrsAt(l.vlrs) = {} THEN <<>>
    ELSE l.vlrs[SetMin(ExtraBytesVlrsAt(l.vlrs))].extra_bytes_structs

\* the extra dimensions that the point format of a LasData declares
DeclaredExtraDims(l) == l.points_data.point_format.extra_dims

RECURSIVE SumOfSizes(_)
SumOfSizes(extra_dims) ==
    IF extra_dims = <<>> THEN 0
    ELSE ExtraDimSize(Head(extra_dims).type) + SumOfSizes(Tail(extra_dims))

\* C20: whatever add_extra_dim calls were made on a LasData, failed ones
\* too, its VLR list has at most one ExtraBytes VLR, the descriptors of that
\* VLR are those of the extra dimensions of the point format, as many and in
\* the same order, and the stride of the buffer is the base size of the
\* format plus the sizes of the declared extra dimensions.
C20_ExtraBytesInvariant ==
    /\ Cardinality(ExtraBytesVlrsAt(las.vlrs)) <= 1
    /\ Len(Descriptors(las)) = Len(DeclaredExtraDims(las))
    /\ \A i \in 1..Len(Descriptors(las)) :
          /\ Descriptors(las)[i].name = DeclaredExtraDims(las)[i].name
          /\ Descriptors(las)[i].data_type = DeclaredExtraDims(las)[i].type
    /\ Stride(las) = SizeOf(BaseDtype(las.points_data.point_format.id))
                        + SumOfSizes(DeclaredExtraDims(las))

\* las[item]
LasBase_getitem(l, item) == PackedPointRecord_getitem(l.points_data, item)

\* C21: an extra dimension added under a name with spaces is read and set by
\* item access with the name as it was given to add_extra_dim, and reads 0
\* for every point right after it was added.
C21_NameWithSpaces ==
    ( /\ lasCall.op = "add_extra_dim"
      /\ lasCall.value.name = "Name With Spaces"
      /\ lasCall.err = "" )
    => /\ LasBase_getitem(las, "Name With Spaces").err = ""
       /\ LasBase_getitem(las, "Name With Spaces").value
             = [i \in 1..PointCount(las) |-> 0]
       /\ LET set == LasBase_setitem(las, "Name With Spaces",
                                     [i \in 1..PointCount(las) |-> 5])
          IN  /\ set.err = ""
              /\ LasBase_getitem(set.las, "Name With Spaces").value
                    = [i \in 1..PointCount(las) |-> 5]

\* the latest call converted the record to the format of another id, or of
\* the same one
Converted == lasCall.op = "convert"

TargetFormat ==
    PointFormatWith(lasCall.value, lasCall.before.points_data.point_format.extra_dims)

\* the dimensions of a format, sub-byte dimensions under their own name
DimensionsOfFormat(fmt) ==
    {PointFormat_dimension_names(fmt)[i] : i \in 1..Len(PointFormat_dimension_names(fmt))}

\* every value of the source fits the target dimension of the same name
SourceFitsTarget ==
    \A name \in DimensionsOf(lasCall.before) \cap SubFieldNames(TargetFormat) :
        FitsWidth(Read(lasCall.before, name), SubField(TargetFormat, name))

\* the converted record: the length and the values of the source in the
\* dimensions of both formats, 0 in the others, the fields of the target format
ConvertedRecord ==
    /\ lasCall.err = ""
    /\ las.points_data.point_format = TargetFormat
    /\ PointCount(las) = PointCount(lasCall.before)
    /\ \A name \in DimensionsOfFormat(TargetFormat) :
          Read(las, name) =
             IF name \in DimensionsOf(lasCall.before)
             THEN Read(lasCall.before, name)
             ELSE [i \in 1..PointCount(lasCall.before) |-> 0]
    /\ FieldNames(las.points_data.array.dtype)
          = FieldNames(PointFormat_descr(TargetFormat))
    /\ \A i \in 1..Len(TargetFormat.extra_dims) :
          TargetFormat.extra_dims[i].name \in DimensionsOf(lasCall.before)

\* C22: converting a record to another point format yields a record
\* of the same length with the source's values in every dimension of both
\* formats, 0 in every dimension of the target format only, no dimension
\* that the target format lacks, and the extra dimensions of the source.
C22_ConvertYieldsRecord == Converted => ConvertedRecord

\* the stride of the format that the latest from_stream read
ReadStride == PointSize(lasCall.value.id)

\* the latest call read a stream of fewer bytes than count points take
ShortRead ==
    /\ lasCall.op = "from_stream"
    /\ SizeOf(lasCall.value.stream) < lasCall.value.count * ReadStride

\* C23: from_stream of n points on a stream of fewer than n * stride bytes
\* fails with the error that names the expected and the read byte counts,
\* whatever the length, a multiple of the stride or not; no record of fewer
\* than n points is returned (the call has no way to ask for one).
C23_TruncatedPointData ==
    ShortRead
    => /\ lasCall.err =
             raise_not_enough_bytes_error(lasCall.value.count * ReadStride,
                                          SizeOf(lasCall.value.stream))
       /\ las = lasCall.before

\* ------------------------------------------- claims on lasdata.LasData
\* the latest call opened a file whose header has a compressed format id and
\* whose VLRs have no LasZip VLR
OpenedWithoutLaszipVlr ==
    /\ lasCall.op = "open"
    /\ is_point_format_compressed(lasCall.file.header.point_data_format_id)
    /\ \A i \in 1..Len(lasCall.file.vlrs) : lasCall.file.vlrs[i] # LasZipVlr

\* C24: opening a file with a compressed point format id and no LasZip VLR
\* fails with the error of the missing LasZip VLR, and the point data were
\* neither read nor decompressed by then.
C24_MissingLaszipVlr ==
    OpenedWithoutLaszipVlr
    => /\ lasCall.err = "ValueError: Could not find Laszip VLR"
       /\ las = None
       /\ \A i \in 1..Len(lasCall.reads) :
             lasCall.reads[i] \notin {"points", "decompress"}

\* such a file with VLRs and points was opened
C24_Witness ==
    /\ OpenedWithoutLaszipVlr
    /\ lasCall.err # ""
    /\ lasCall.file.vlrs # <<>>
    /\ lasCall.file.points # <<>>

\* C25: the point format id of the header that a LasData holds in memory is
\* the uncompressed id at all times, after a compressed file was read and
\* after any writes with compression; only the header written to the
\* destination has the high bit set.
C25_LogicalFormatId ==
    las # None
    => /\ ~is_point_format_compressed(las.header.point_data_format_id)
       /\ lasCall.op = "write_to"
            => is_point_format_compressed(lasCall.out.header.point_data_format_id)
                 = lasCall.do_compress

\* the composed field of a sub-field of the formats 0 to 5
ComposedOf(name) == SubField(PointFormatWith(0, <<>>), name).composed

\* C26: the point data that write_to writes have, in both composed fields,
\* the values that the sub-fields of the LasData had when it was called:
\* return_number, number_of_returns, scan_direction_flag and
\* edge_of_flight_line as well as classification, synthetic, key_point and
\* withheld.
C26_BothComposedFieldsRepacked ==
    lasCall.op = "write_to"
    => \A name \in SubFieldNames(PointFormatWith(0, <<>>)) :
          bit_transform(FieldOf(lasCall.out.points, ComposedOf(name)), name)
             = lasCall.before[name]

\* number of the records written whose return_number is r
WrittenWithReturn(r) ==
    Cardinality({i \in 1..Len(written) : written[i].return_number = r})

\* C29: after any sequence of writes, for every return number r from 1 to
\* the length of the table, slot r-1 of number_of_points_by_return (entry r,
\* counting from 1) is the number of written points whose return_number is
\* r; points with return_number 0 or above the table length change no slot.
C29_HistogramByReturnNumber ==
    OnlyWrites(trace) =>
        \A r \in 1..Len(header.number_of_points_by_return) :
            header.number_of_points_by_return[r] = WrittenWithReturn(r)

\* the latest call saved a LasData that has points to a path
SavedToPath ==
    /\ lasCall.op = "write"
    /\ lasCall.key.kind = "str"
    /\ PointCount(lasCall.before) > 0

\* what the arguments of the latest write ask for: do_compress when it is
\* given, the extension of the path when it is None
CompressionAsked ==
    IF lasCall.value # "None" THEN lasCall.value = "True"
    ELSE is_ext_laz(lasCall.key.filename)

\* C27: write to a path saves the file compressed when do_compress is True
\* and uncompressed when it is False, whatever the extension of the path;
\* when do_compress is None a path ending in .laz is saved compressed and
\* any other uncompressed.
C27_ExplicitDoCompress ==
    SavedToPath
    => /\ lasCall.err = ""
       /\ HeaderAtStart(lasCall.out.bytes) # None
       /\ HeaderAtStart(lasCall.out.bytes).compressed = CompressionAsked

\* the header of a LasData tells the number, the format and the size of the
\* points of its record
HeaderInSync(l) ==
    /\ l.header.point_count = PointCount(l)
    /\ l.header.point_format_id = l.points_data.point_format.id
    /\ l.header.point_size = ItemSize(l.points_data.array.dtype)

\* C28: after a LasData was saved with write, the point_count of its own
\* header is the number of points of its record, and the header's point
\* format id and point record length are those of the record.
C28_WriteSyncsHeader ==
    lasCall.op = "write" => HeaderInSync(las)

\* the latest call ran update_header: the call itself, or the setter of points
HeaderUpdated ==
    /\ lasCall.op \in {"update_header", "points"}
    /\ lasCall.err = ""

\* number of the points of a LasData whose return_number is r
WithReturn(l, r) ==
    Cardinality({i \in 1..PointCount(l) : Read(l, "return_number")[i] = r})

\* C30: after update_header on a record that has points,
\* number_of_points_by_return has one entry for each slot of the table and
\* entry r-1 (entry r, counting from 1) is the number of points whose
\* return_number is r; after update_header on a record without points the
\* header has point_count 0, and extrema and counts of no points.
C30_UpdateHeader ==
    HeaderUpdated
    => IF PointCount(las) > 0
       THEN /\ Len(las.header.number_of_points_by_return)
                 = ReturnTableLen(las.header.version)
            /\ \A r \in 1..ReturnTableLen(las.header.version) :
                  las.header.number_of_points_by_return[r] = WithReturn(las, r)
       ELSE /\ las.header.point_count = 0
            /\ las.header.maxs = <<0, 0, 0>>
            /\ las.header.mins = <<0, 0, 0>>
            /\ las.header.number_of_points_by_return
                 = Zeros(ReturnTableLen(las.header.version))

\* the writer was opened and at most handed empty chunks, and closed or not
OpenedOnly ==
    \A i \in 1..Len(trace) :
        \/ trace[i].op = "write" /\ trace[i].n = 0
        \/ trace[i].op = "close" /\ i = Len(trace)

\* C31: from the opening of a LasWriter on, before any write call, the
\* destination holds the placeholder header followed by the VLRs; after open
\* and close, with no chunk or only empty chunks between them, it holds a
\* header with point_count 0 followed by the VLRs.
C31_PlaceholderAtOpen ==
    OpenedOnly
    => /\ HeaderAtStart(dest.bytes) # None
       /\ HeaderAtStart(dest.bytes).point_count = 0
       /\ [i \in 1..Len(LeadingVlrs(Tail(dest.bytes))) |->
              LeadingVlrs(Tail(dest.bytes))[i].data] = vlrs

\* non-empty chunks were written to an uncompressed writer, in a run
\* open -> write* -> write_evlrs? -> close as far as it went
UncompressedRun ==
    /\ ~conf.do_compress
    /\ FollowsContract(trace)
    /\ \A i \in 1..Len(trace) : trace[i].op = "write" => trace[i].n > 0
    /\ written # <<>>

\* the EVLRs that a write_evlrs call of the run wrote
EvlrsOfRun ==
    IF \E i \in 1..Len(trace) :
           trace[i].op = "write_evlrs" /\ trace[i].err = "" /\ trace[i].n > 0
    THEN EvlrBlocks(CHOOSE evlrs \in EvlrLists : evlrs # <<>>)
    ELSE <<>>

\* C32: for non-empty chunks c1..ck written to an uncompressed LasWriter, the
\* initial header and the VLRs are written once, before any point byte, and
\* the destination from offset_to_point_data on holds the bytes of c1, ..., ck
\* in the order of the write calls, followed by the EVLRs if any.
C32_ChunksInOrder ==
    UncompressedRun
    => /\ wlog[1] = [what |-> "header", at |-> 0]
       /\ \A i \in 1..Len(wlog) :
             /\ wlog[i].what = "vlrs" => i = 2
             /\ wlog[i].what = "header" => i = 1 \/ (Closed(trace) /\ i = Len(wlog))
             /\ wlog[i].what = "points" => i > (IF vlrs = <<>> THEN 1 ELSE 2)
       /\ (vlrs # <<>>) => wlog[2].what = "vlrs"
       /\ Drop(dest.bytes, HeaderAtStart(dest.bytes).offset_to_point_data)
            = PointBlocks([point_format |-> point_format, array |-> written])
                \o EvlrsOfRun

C32_Witness ==
    /\ UncompressedRun
    /\ Len(trace) = 3
    /\ trace[1].op = "write" /\ trace[2].op = "write" /\ trace[3].op = "write_evlrs"
    /\ NoError(trace)
    /\ written[1] # written[2]
    /\ EvlrsOfRun # <<>>

\* the runs of _rewrite_chunk_table_offset of the laszip point writer
Splices ==
    IF point_writer # None /\ point_writer.kind = "LasZipProcessPointWriter"
    THEN point_writer.splice ELSE <<>>

\* the bytes of a run that are neither the 8 bytes of the slot nor the last
\* 8 bytes of the output it found
OtherBytes(bytes, slot, total) ==
    Take(bytes, slot) \o Take(Drop(bytes, slot + 8), total - 8 - (slot + 8))

\* C33: when the 8 bytes at offset_to_point_data of the output hold -1,
\* _rewrite_chunk_table_offset leaves there the value that the last 8 bytes
\* held, the output 8 bytes shorter, every other byte as it was and the
\* position at the new end; when they hold another value it leaves the output
\* and the position as they were.
C33_ChunkTableOffsetSplice ==
    \A i \in 1..Len(Splices) :
        LET before == Splices[i].before
            after  == Splices[i].after
            slot   == HeaderAtStart(before.bytes).offset_to_point_data
            total  == SizeOf(before.bytes)
        IN  IF ReadOffset(before.bytes, slot) = -1
            THEN /\ ReadOffset(after.bytes, slot) = ReadOffset(before.bytes, total - 8)
                 /\ SizeOf(after.bytes) = total - 8
                 /\ OtherBytes(after.bytes, slot, total)
                      = OtherBytes(before.bytes, slot, total)
                 /\ after.pos = total - 8
            ELSE after = before

\* both cases happened: a child that left -1 in the slot ...
C33_Witness ==
    /\ Splices # <<>>
    /\ LET before == Splices[1].before
           slot   == HeaderAtStart(before.bytes).offset_to_point_data
       IN  /\ ReadOffset(before.bytes, slot) = -1
           /\ ReadOffset(Splices[1].after.bytes, slot) > slot
           /\ before.pos = SizeOf(before.bytes)

\* ... and a child that put the offset there itself
C33_WitnessInPlace ==
    /\ Splices # <<>>
    /\ LET before == Splices[1].before
       IN  ReadOffset(before.bytes, HeaderAtStart(before.bytes).offset_to_point_data) > 0

\* the steps of done() of the laszip point writer, as far as they went
DoneEvents ==
    IF point_writer # None /\ point_writer.kind = "LasZipProcessPointWriter"
    THEN point_writer.events ELSE <<>>

Before(log, a, i) == \E j \in 1..(i - 1) : log[j] = a

\* C34: the chunk table offset is spliced only after the child was waited for
\* and exited with code 0 and after the relay thread, when there is one, was
\* joined; the splice comes before the header is rewritten and before the
\* EVLRs are placed, and start_of_first_evlr is the end of the spliced
\* output; when the child exits with another code done() raises LazError
\* with that code and nothing is spliced.
C34_SpliceAfterExitAndJoin ==
    /\ \A i \in 1..Len(DoneEvents) :
          DoneEvents[i] = "splice"
          => /\ conf.child.returncode = 0
             /\ Before(DoneEvents, "wait", i)
             /\ conf.child.conveyor => Before(DoneEvents, "join", i)
    /\ Splices # <<>>
       => \A i, j \in 1..Len(wlog) :
             (wlog[i].what = "offset" /\ wlog[j].what \in {"header", "evlrs"})
             => i < j
    /\ (Splices # <<>> /\ Wrote("evlrs"))
       => /\ header.start_of_first_evlr = SizeOf(Splices[1].after.bytes)
          /\ \E i \in 1..Len(wlog) :
                wlog[i] = [what |-> "evlrs", at |-> header.start_of_first_evlr]
    /\ (conf.child.returncode # 0 /\ Before(DoneEvents, "wait", Len(DoneEvents) + 1))
       => /\ ~Before(DoneEvents, "splice", Len(DoneEvents) + 1)
          /\ ~Wrote("offset")
          /\ Before(DoneEvents, "error code " \o ToString(conf.child.returncode),
                    Len(DoneEvents) + 1)
          /\ \E i \in 1..Len(trace) :
                trace[i].op \in {"close", "write_evlrs"} /\ trace[i].err = "LazError"

\* a child relayed by a thread ran to its end, its output was spliced, the
\* EVLRs were placed and the header was rewritten
C34_Witness ==
    /\ DoneEvents = <<"close_stdin", "wait", "join", "splice">>
    /\ Wrote("evlrs")
    /\ Closed(trace)
    /\ NoError(trace)

\* a child exited with code 1 and done() raised
C34_WitnessFailed ==
    /\ conf.child.returncode = 1
    /\ Before(DoneEvents, "wait", Len(DoneEvents) + 1)
    /\ Last(trace).err = "LazError"

\* the step is a call of write that forwarded its chunk to the point writer
Forwarded ==
    /\ IsCall("write")
    /\ Len(encLog') = Len(encLog) + (IF point_writer = None THEN 2 ELSE 1)
    /\ Last(encLog') = "write_points"

EndsWith(seq, tail) ==
    /\ Len(seq) >= Len(tail)
    /\ SubSeq(seq, Len(seq) - Len(tail) + 1, Len(seq)) = tail

\* C35: write_points of the laszip point writer either hands the whole chunk
\* to the stdin of the child or raises LazError, whether the child still
\* runs or has exited, with whatever code.
C35_NeverDropsChunk ==
    [][(Forwarded /\ point_writer'.kind = "LasZipProcessPointWriter")
       => \/ Last(trace').err = "LazError"
          \/ /\ Last(trace').err = ""
             /\ Len(point_writer'.stdin)
                  > (IF point_writer = None THEN 0 ELSE Len(point_writer.stdin))
             /\ EndsWith(point_writer'.stdin, PointBlocks(arg'.points))]_vars

\* the statistics of the header that _update_header keeps
Statistics(h) ==
    [point_count |-> h.point_count, maxs |-> h.maxs, mins |-> h.mins,
     number_of_points_by_return |-> h.number_of_points_by_return]

\* C36: when the point writer fails on a chunk that write forwards to it, the
\* point_count, the extrema and the counts by return of the header are as
\* they were before the call.
C36_FailedChunkNotCounted ==
    [][(Forwarded /\ Last(trace').err # "")
       => Statistics(header') = Statistics(header)]_vars

\* the step is a compressed write_to of the LasData
CompressedWriteTo ==
    /\ lasCalls' = lasCalls + 1
    /\ lasCall'.op = "write_to"
    /\ lasCall'.do_compress

\* C37: a compressed write leaves the VLR list of the LasData as it was, and
\* a compressed write that follows a compressed write emits the same
\* number_of_vlr and offset_to_point_data.
C37_VlrListUnchanged ==
    [][CompressedWriteTo
       => /\ las'.vlrs = las.vlrs
          /\ (lasCall.op = "write_to" /\ lasCall.do_compress)
             => /\ lasCall'.out.header.number_of_vlr
                     = lasCall.out.header.number_of_vlr
                /\ lasCall'.out.header.offset_to_point_data
                     = lasCall.out.header.offset_to_point_data]_vars

\* a non-empty chunk was handed to a compressing writer for which no
\* back-end can be constructed
NoBackendRun ==
    /\ conf.do_compress
    /\ \A i \in 1..Len(conf.laz_backends) :
          conf.laz_backends[i] \notin conf.constructible
    /\ \E i \in 1..Len(trace) : trace[i].op = "write" /\ trace[i].n > 0

\* C38: when no back-end can be constructed, every write of a non-empty chunk
\* fails, no byte is written to the destination, by write or by a close that
\* follows, and the writer has no point writer and a point_count of 0.
C38_NoBackendNoBytes ==
    NoBackendRun
    => /\ \A i \in 1..Len(trace) :
             (trace[i].op = "write" /\ trace[i].n > 0) => trace[i].err # ""
       /\ dest.bytes = <<>>
       /\ wlog = <<>>
       /\ point_writer = None
       /\ header.point_count = 0

C38_Witness ==
    /\ NoBackendRun
    /\ Len(trace) = 2
    /\ trace[1].op = "write"
    /\ trace[1].err \notin {"", "IncompatibleVersion", "NoLazBackendSelected"}
    /\ trace[2].op = "close" /\ trace[2].err = ""

\* C39: UnpackedPointRecord.from_stream returns: it reads the points once, in
\* its one frame, and gives the unpacked record of the points.
C39_FromStreamReturns ==
    lasCall.op = "from_stream_unpacked"
    => /\ lasCall.err = ""
       /\ lasCall.value.frames = 1
       /\ lasCall.value.reads = 1
       /\ lasCall.value.rec # None
====
